---- MODULE Spec2Model ----
(***************************************************************************)
(* Reconciliation core of the O-RAN hardware manager plugin:               *)
(*   - the NodePool action classifier and dispatcher of the metal3 and     *)
(*     loopback adaptors (adaptors/metal3/adaptor.go and its loopback      *)
(*     twin),                                                              *)
(*   - the retried NodePool status mutations of the utils package,         *)
(*   - the Node status operations of the metal3 adaptor,                   *)
(*   - the deletion path (HandleNodePoolDeletion, NodepoolRemoveFinalizer),*)
(*   - the aggregation of child Node conditions                            *)
(*     (DeriveNodePoolStatusFromNodes),                                    *)
(*   - the status-condition list under SetStatusCondition calls.           *)
(***************************************************************************)
EXTENDS Integers, Sequences, FiniteSets, TLC

(***************************************************************************)
(* Bounds of the model.                                                    *)
(***************************************************************************)
MaxConds == 2
MaxGen == 2
MaxReconciles == 2
MaxRv == 6
MaxNodeRv == 6
MaxNodes == 2
MaxCrashes == 1
MaxPasses == 3
MaxChildren == 3
MaxCalls == 4
MaxCreates == 3
MaxAllocations == 2
MaxHosts == 2

(***************************************************************************)
(* Values of the API types.                                                *)
(***************************************************************************)
ConditionTrue == "True"
ConditionFalse == "False"
ConditionUnknown == "Unknown"
ConditionStatuses == {ConditionTrue, ConditionFalse, ConditionUnknown}

Provisioned == "Provisioned"
Configured == "Configured"
OtherType == "Other"
ConditionTypes == {Provisioned, Configured, OtherType}

InProgress == "InProgress"
Completed == "Completed"
Failed == "Failed"
ConditionReasons == {InProgress, Completed, Failed}

NodePoolFSMCreate == "Create"
NodePoolFSMProcessing == "Processing"
NodePoolFSMSpecChanged == "SpecChanged"
NodePoolFSMNoop == "Noop"

Adaptors == {"metal3", "loopback"}

\* A metav1.Condition: Type, Status, Reason, Message, LastTransitionTime.
Condition(t, s, r, m, ltt) ==
    [type |-> t, status |-> s, reason |-> r, message |-> m, ltt |-> ltt]

\* The nil *metav1.Condition returned by a failed lookup.
NilCondition == Condition("", "", "", "", 0)

VARIABLES
    adaptor,      \* the AdaptorID of the HardwareManager: which adaptor reconciles
    nodepool,     \* the NodePool handed to HandleNodePool
    clock,        \* the wall clock read by metav1.Now()
    lastAction,   \* what determineAction returned in the last HandleNodePool call
    lastHandler,  \* the handler that call dispatched to ("none": no handler)
    lastResult,   \* the (ctrl.Result, error) that call returned
    reconciles,   \* number of HandleNodePool calls so far
    store,        \* the NodePool as the API server stores it
    caller,       \* the in-memory NodePool of the running reconciliation pass
    call,         \* the retried mutation in progress
    nodeStore,    \* a Node as the API server stores it
    nodeMem,      \* the in-memory Node the caller of an adaptor operation holds
    nodeCall,     \* the adaptor operation in progress on the Node
    allocated,    \* the Nodes of the NodePool that hold hardware at the backend
    releases,     \* per Node, how many times the backend has released its hardware
    deletion,     \* the deletion of the NodePool and the pass that finalizes it
    children,     \* the child Nodes of a NodePool as a reader finds them, in list order
    derived,      \* what DeriveNodePoolStatusFromNodes returned last
    ledger,       \* a condition list and the SetStatusCondition calls made on it
    nodeObjs,     \* the Node objects the API server stores, by name
    creation,     \* the last CreateNode or AllocateNode call and what it returned
    hosts,        \* the BareMetalHost objects of the cluster, in list order
    inventory     \* the last GetResourcePools or GetResources call and what it returned

fsmVars == <<adaptor, nodepool, clock, lastAction, lastHandler, lastResult, reconciles>>
retryVars == <<store, caller, call>>

nodeVars == <<nodeStore, nodeMem, nodeCall>>

delVars == <<allocated, releases, deletion>>

aggVars == <<children, derived>>

ledgerVars == <<ledger>>

createVars == <<nodeObjs, creation>>

invVars == <<hosts, inventory>>

vars == <<fsmVars, retryVars, nodeVars, delVars, aggVars, ledgerVars, createVars, invVars>>

(***************************************************************************)
(* Status-condition ledger.                                                *)
(***************************************************************************)
Min(S) == CHOOSE x \in S : \A y \in S : x <= y

\* meta.FindStatusCondition: the first entry of the list with the given Type.
FindStatusCondition(conditions, conditionType) ==
    LET idx == {i \in 1..Len(conditions) : conditions[i].type = conditionType}
    IN IF idx = {} THEN NilCondition ELSE conditions[Min(idx)]

\* Mutant: the transition time is refreshed by every call.
SetStatusConditionAlwaysRefreshes(conditions, conditionType, conditionReason, conditionStatus, message, now) ==
    LET idx == {i \in 1..Len(conditions) : conditions[i].type = conditionType}
    IN IF idx = {}
       THEN Append(conditions,
                   Condition(conditionType, conditionStatus, conditionReason, message, now))
       ELSE [conditions EXCEPT ![Min(idx)] =
                Condition(conditionType, conditionStatus, conditionReason, message, now)]

\* Mutant: an entry whose Status or Reason changes is removed and appended anew.
SetStatusConditionReappends(conditions, conditionType, conditionReason, conditionStatus, message, now) ==
    LET idx == {i \in 1..Len(conditions) : conditions[i].type = conditionType}
    IN IF idx = {}
       THEN Append(conditions,
                   Condition(conditionType, conditionStatus, conditionReason, message, now))
       ELSE LET i == Min(idx)
                old == conditions[i]
            IN IF old.status # conditionStatus \/ old.reason # conditionReason
               THEN Append(SelectSeq(conditions, LAMBDA c : c.type # conditionType),
                           Condition(conditionType, conditionStatus, conditionReason, message, now))
               ELSE [conditions EXCEPT ![i].message = message]

\* Mutant: the transition time is refreshed only when the Status changes.
SetStatusConditionStatusOnly(conditions, conditionType, conditionReason, conditionStatus, message, now) ==
    LET idx == {i \in 1..Len(conditions) : conditions[i].type = conditionType}
    IN IF idx = {}
       THEN Append(conditions,
                   Condition(conditionType, conditionStatus, conditionReason, message, now))
       ELSE LET i == Min(idx)
                old == conditions[i]
            IN [conditions EXCEPT ![i] =
                    Condition(conditionType, conditionStatus, conditionReason, message,
                              IF old.status # conditionStatus THEN now ELSE old.ltt)]

\* utils.SetStatusCondition: append when absent; replace in place otherwise,
\* refreshing the transition time only when Status or Reason changed.
SetStatusCondition(conditions, conditionType, conditionReason, conditionStatus, message, now) ==
    LET idx == {i \in 1..Len(conditions) : conditions[i].type = conditionType}
    IN IF idx = {}
       THEN Append(conditions,
                   Condition(conditionType, conditionStatus, conditionReason, message, now))
       ELSE LET i == Min(idx)
                old == conditions[i]
            IN IF old.status # conditionStatus \/ old.reason # conditionReason
               THEN [conditions EXCEPT ![i] =
                        Condition(conditionType, conditionStatus, conditionReason, message, now)]
               ELSE [conditions EXCEPT ![i].message = message]

(***************************************************************************)
(* The classifier of each adaptor.                                         *)
(***************************************************************************)
\* Mutant: Status=True short-circuits to Noop before the generations are compared.
determineActionMetal3NoopFirst(np) ==
    IF Len(np.conditions) = 0
    THEN NodePoolFSMCreate
    ELSE LET provisionedCondition == FindStatusCondition(np.conditions, Provisioned)
         IN IF provisionedCondition # NilCondition
            THEN IF provisionedCondition.status = ConditionTrue
                 THEN NodePoolFSMNoop
                 ELSE IF provisionedCondition.reason = Failed
                      THEN NodePoolFSMNoop
                      ELSE NodePoolFSMProcessing
            ELSE NodePoolFSMNoop

\* Mutant: the Failed test inverted.
determineActionMetal3FailedInverted(np) ==
    IF Len(np.conditions) = 0
    THEN NodePoolFSMCreate
    ELSE LET provisionedCondition == FindStatusCondition(np.conditions, Provisioned)
         IN IF provisionedCondition # NilCondition
            THEN IF provisionedCondition.status = ConditionTrue
                 THEN IF np.generation # np.observedGeneration
                      THEN NodePoolFSMSpecChanged
                      ELSE NodePoolFSMNoop
                 ELSE IF provisionedCondition.reason # Failed
                      THEN NodePoolFSMNoop
                      ELSE NodePoolFSMProcessing
            ELSE NodePoolFSMNoop

\* Mutant: a list without a Provisioned condition is taken for a new NodePool.
determineActionMetal3AbsentIsCreate(np) ==
    IF Len(np.conditions) = 0
    THEN NodePoolFSMCreate
    ELSE LET provisionedCondition == FindStatusCondition(np.conditions, Provisioned)
         IN IF provisionedCondition # NilCondition
            THEN IF provisionedCondition.status = ConditionTrue
                 THEN IF np.generation # np.observedGeneration
                      THEN NodePoolFSMSpecChanged
                      ELSE NodePoolFSMNoop
                 ELSE IF provisionedCondition.reason = Failed
                      THEN NodePoolFSMNoop
                      ELSE NodePoolFSMProcessing
            ELSE NodePoolFSMCreate

determineActionMetal3(np) ==
    IF Len(np.conditions) = 0
    THEN NodePoolFSMCreate
    ELSE LET provisionedCondition == FindStatusCondition(np.conditions, Provisioned)
         IN IF provisionedCondition # NilCondition
            THEN IF provisionedCondition.status = ConditionTrue
                 THEN IF np.generation # np.observedGeneration
                      THEN NodePoolFSMSpecChanged
                      ELSE NodePoolFSMNoop
                 ELSE IF provisionedCondition.reason = Failed
                      THEN NodePoolFSMNoop
                      ELSE NodePoolFSMProcessing
            ELSE NodePoolFSMNoop

\* Mutant: the test for an empty list left out.
determineActionLoopbackNoEmptyTest(np) ==
    LET provisionedCondition == FindStatusCondition(np.conditions, Provisioned)
    IN IF provisionedCondition # NilCondition
       THEN IF provisionedCondition.status = ConditionTrue
            THEN IF np.generation # np.observedGeneration
                 THEN NodePoolFSMSpecChanged
                 ELSE NodePoolFSMNoop
            ELSE NodePoolFSMProcessing
       ELSE NodePoolFSMNoop

\* Mutant: a NodePool whose status names selected pools is still Processing.
determineActionLoopbackReadsSelectedPools(np) ==
    IF "selectedPools" \in DOMAIN np /\ np.selectedPools # ""
    THEN NodePoolFSMProcessing
    ELSE IF Len(np.conditions) = 0
    THEN NodePoolFSMCreate
    ELSE LET provisionedCondition == FindStatusCondition(np.conditions, Provisioned)
         IN IF provisionedCondition # NilCondition
            THEN IF provisionedCondition.status = ConditionTrue
                 THEN IF np.generation # np.observedGeneration
                      THEN NodePoolFSMSpecChanged
                      ELSE NodePoolFSMNoop
                 ELSE NodePoolFSMProcessing
            ELSE NodePoolFSMNoop

determineActionLoopback(np) ==
    IF Len(np.conditions) = 0
    THEN NodePoolFSMCreate
    ELSE LET provisionedCondition == FindStatusCondition(np.conditions, Provisioned)
         IN IF provisionedCondition # NilCondition
            THEN IF provisionedCondition.status = ConditionTrue
                 THEN IF np.generation # np.observedGeneration
                      THEN NodePoolFSMSpecChanged
                      ELSE NodePoolFSMNoop
                 ELSE NodePoolFSMProcessing
            ELSE NodePoolFSMNoop

determineAction(a, np) ==
    IF a = "metal3" THEN determineActionMetal3(np) ELSE determineActionLoopback(np)

(***************************************************************************)
(* The handlers HandleNodePool dispatches to, and the dispatcher.          *)
(***************************************************************************)
\* utils.DoNotRequeue(): ctrl.Result{Requeue: false}, returned with a nil error.
DoNotRequeue == [requeue |-> FALSE, err |-> "nil"]
Requeue == [requeue |-> TRUE, err |-> "nil"]
NoResult == [requeue |-> FALSE, err |-> "none"]

\* What the backend reports to a handler: the allocation is still running,
\* has completed, or has failed.
Outcomes == {InProgress, Completed, Failed}

\* The Provisioned condition a handler records for a backend outcome.
SetProvisioned(np, outcome, now) ==
    [np EXCEPT !.conditions =
        SetStatusCondition(np.conditions, Provisioned, outcome,
                           IF outcome = Completed THEN ConditionTrue ELSE ConditionFalse,
                           outcome, now)]

\* Create: allocate, set Provisioned to InProgress (Completed when synchronous,
\* Failed on error) and record the observed generation.
HandleNodePoolCreate(np, outcome, now) ==
    [nodepool |-> [SetProvisioned(np, outcome, now)
                      EXCEPT !.observedGeneration = np.generation],
     result |-> DoNotRequeue]

\* Processing: poll the allocation; Completed or Failed ends it.
HandleNodePoolProcessing(np, outcome, now) ==
    [nodepool |-> SetProvisioned(np, outcome, now),
     result |-> IF outcome = InProgress THEN Requeue ELSE DoNotRequeue]

\* SpecChanged: re-evaluate the spec and go back to Processing.
HandleNodePoolSpecChanged(np, outcome, now) ==
    [nodepool |-> [SetProvisioned(np, InProgress, now)
                      EXCEPT !.observedGeneration = np.generation],
     result |-> Requeue]

\* Mutant: the Noop case falls through to the Processing handler.
HandleNodePoolNoopFallsThrough(a, np, outcome, now) ==
    LET action == determineAction(a, np)
        ran(h, r) == [action |-> action, handler |-> h,
                      nodepool |-> r.nodepool, result |-> r.result]
    IN CASE action = NodePoolFSMCreate ->
              ran("HandleNodePoolCreate", HandleNodePoolCreate(np, outcome, now))
         [] action = NodePoolFSMSpecChanged ->
              ran("HandleNodePoolSpecChanged", HandleNodePoolSpecChanged(np, outcome, now))
         [] OTHER ->
              ran("HandleNodePoolProcessing", HandleNodePoolProcessing(np, outcome, now))

\* HandleNodePool of adaptor a: classify, then dispatch.
HandleNodePool(a, np, outcome, now) ==
    LET action == determineAction(a, np)
        ran(h, r) == [action |-> action, handler |-> h,
                      nodepool |-> r.nodepool, result |-> r.result]
    IN CASE action = NodePoolFSMCreate ->
              ran("HandleNodePoolCreate", HandleNodePoolCreate(np, outcome, now))
         [] action = NodePoolFSMProcessing ->
              ran("HandleNodePoolProcessing", HandleNodePoolProcessing(np, outcome, now))
         [] action = NodePoolFSMSpecChanged ->
              ran("HandleNodePoolSpecChanged", HandleNodePoolSpecChanged(np, outcome, now))
         [] OTHER ->
              ran("none", [nodepool |-> np, result |-> DoNotRequeue])

\* The classifier's variables, at rest in the other specifications.
FsmIdle ==
    /\ adaptor = "metal3"
    /\ nodepool = [generation |-> 1, observedGeneration |-> 0, conditions |-> <<>>]
    /\ clock = 1
    /\ lastAction = "none"
    /\ lastHandler = "none"
    /\ lastResult = NoResult
    /\ reconciles = 0

\* An error as a function returns it: its message and the error it wraps.
NilError == [message |-> "", wraps |-> "nil"]

\* The Nodes a NodePool can have been allocated.
Nodes == 1..MaxNodes

\* A NodePool that is not being deleted; nodes: the Nodes allocated to it;
\* calls: the ReleaseNodePool calls made for it; failures: the deletion
\* passes that ended with an error (both are counted up to MaxPasses and
\* stay there).
IdleDeletion ==
    [nodes |-> {}, deleted |-> FALSE, gone |-> FALSE, pc |-> "idle", finalized |-> FALSE,
     err |-> NilError, released |-> FALSE, crashes |-> 0, calls |-> 0, failures |-> 0]

\* The deletion path's variables, at rest in the other specifications.
DeletionIdle ==
    /\ allocated = {}
    /\ releases = [n \in Nodes |-> 0]
    /\ deletion = IdleDeletion

\* No call of DeriveNodePoolStatusFromNodes has been made: no result, and
\* no child Node read.
NoDerived ==
    [status |-> "", reason |-> "", message |-> [format |-> "", node |-> 0, text |-> ""],
     fetched |-> 0, pc |-> "idle", seen |-> <<>>]

\* The aggregation's variables, at rest in the other specifications.
AggIdle ==
    /\ children = <<>>
    /\ derived = NoDerived

\* An empty condition list on which no call has been made.
EmptyLedger ==
    [conditions |-> <<>>, order |-> <<>>, calls |-> 0,
     args |-> [type |-> "", reason |-> "", status |-> "", message |-> ""], repeated |-> FALSE]

\* No Node object stored and no creation call made.
NoNodes == [n \in {} |-> NilError]

NoPool == [name |-> "", uid |-> "", hwMgrId |-> ""]

NoNodeArgs == [cloudID |-> "", nodeId |-> "", nodeNs |-> "", groupname |-> "", hwprofile |-> ""]

NoResource ==
    [hasId |-> FALSE, id |-> "", hasResourcePoolId |-> FALSE, resourcePoolId |-> "",
     hasResourceProfileID |-> FALSE, resourceProfileID |-> "",
     hasResourceAttribute |-> FALSE, hasCompute |-> FALSE, hasLom |-> FALSE,
     hasIpAddress |-> FALSE, hasPassword |-> FALSE,
     hasExtensions |-> FALSE, hasNics |-> FALSE, hasNads |-> FALSE, nads |-> "none",
     hasName |-> FALSE]

\* No creation call made: pc is where the call in flight stands ("idle" when
\* none is), name and ret are what the last call returned, and foreign holds
\* the names of the Nodes that another creator stored.
NoCreation ==
    [adaptor |-> "none", fn |-> "none", nodepool |-> NoPool, nodename |-> "",
     args |-> NoNodeArgs, resource |-> NoResource, existed |-> FALSE, get |-> "none",
     trace |-> <<>>, faulted |-> FALSE, pc |-> "idle", panicked |-> FALSE,
     rerun |-> FALSE, foreign |-> {}, steps |-> 0,
     name |-> "", ret |-> NilError, calls |-> 0]

\* The creation variables, at rest in the other specifications.
CreateIdle ==
    /\ nodeObjs = NoNodes
    /\ creation = NoCreation

\* No BareMetalHost listed and no inventory call made: pc is where the call
\* stands ("list" between the two requests of the metal3 GetResources, "done"
\* once it has returned) and nodes what its first request answered.
NoInventory ==
    [adaptor |-> "none", fn |-> "none", records |-> <<>>, status |-> 0, err |-> NilError,
     cause |-> "nil", pc |-> "idle", nodes |-> {}]

\* The inventory variables, at rest in the other specifications.
InventoryIdle ==
    /\ hosts = <<>>
    /\ inventory = NoInventory

\* The ledger's variable, at rest in the other specifications.
LedgerIdle == ledger = EmptyLedger

(***************************************************************************)
(* The stored NodePool, the API server's conditional writes and the        *)
(* retried mutations of the utils package.                                 *)
(***************************************************************************)
\* retry.DefaultRetry: Steps = 5.
DefaultRetrySteps == 5

NodepoolFinalizer == "oran-hwmgr-plugin/nodepool-finalizer"

\* A finalizer of another controller.
OtherFinalizer == "example.com/other-finalizer"

\* controllerutil.ContainsFinalizer
ContainsFinalizer(fins, f) == \E i \in DOMAIN fins : fins[i] = f

\* Mutant: the finalizer is appended whether or not the list holds it.
AddFinalizerAlways(fins, f) == Append(fins, f)

\* controllerutil.AddFinalizer: the list is left alone when it holds the
\* finalizer, which is appended otherwise.
AddFinalizer(fins, f) ==
    IF ContainsFinalizer(fins, f) THEN fins ELSE Append(fins, f)

\* controllerutil.RemoveFinalizer: every occurrence is taken out.
RemoveFinalizer(fins, f) == SelectSeq(fins, LAMBDA x : x # f)

\* A NodePool object: metadata (resourceVersion, generation, finalizers, a
\* list) and status.
NodePoolObject(rv, g, o, conds, props, pools, fins) ==
    [rv |-> rv, generation |-> g, observedGeneration |-> o, conditions |-> conds,
     properties |-> props, selectedPools |-> pools, finalizers |-> fins]

\* The empty &hwmgmtv1alpha1.NodePool{} a closure starts with.
EmptyNodePool == NodePoolObject(0, 0, 0, <<>>, 0, 0, <<>>)

\* A NodePool as the API server holds it right after its creation.
CreatedNodePool == NodePoolObject(1, 1, 0, <<>>, 0, 0, <<>>)

Ops ==
    {"UpdateNodePoolStatusCondition", "UpdateNodePoolProperties",
     "UpdateNodePoolSelectedPools", "UpdateNodePoolPluginStatus",
     "NodepoolAddFinalizer", "NodepoolRemoveFinalizer"}
StatusOps ==
    {"UpdateNodePoolStatusCondition", "UpdateNodePoolProperties",
     "UpdateNodePoolSelectedPools", "UpdateNodePoolPluginStatus"}

\* Status.Properties and Status.SelectedPools: empty (0) or filled in by a pass (1).
StatusValues == {0, 1}

\* Arguments of UpdateNodePoolStatusCondition: (Provisioned, reason, status, message).
NoArgs == [reason |-> "", status |-> ""]
CondArgs ==
    {[reason |-> InProgress, status |-> ConditionFalse],
     [reason |-> Completed, status |-> ConditionTrue],
     [reason |-> Failed, status |-> ConditionFalse]}

\* No retried mutation is running.
IdleCall ==
    [op |-> "none", args |-> NoArgs, pc |-> "idle", steps |-> 0, new |-> EmptyNodePool,
     err |-> "nil", gets |-> 0, updates |-> 0, conflicts |-> 0, getFails |-> 0,
     ret |-> NilError]

RetryIdle ==
    /\ store = CreatedNodePool
    /\ caller = CreatedNodePool
    /\ call = IdleCall

\* c.Status().Update(ctx, obj): rejected as a conflict unless obj carries the
\* stored resourceVersion; writes the status of obj and nothing else.
StatusUpdate(st, obj) ==
    IF obj.rv # st.rv
    THEN [err |-> "Conflict", store |-> st]
    ELSE LET written == [st EXCEPT !.observedGeneration = obj.observedGeneration,
                                   !.conditions = obj.conditions,
                                   !.properties = obj.properties,
                                   !.selectedPools = obj.selectedPools]
         IN [err |-> "nil",
             store |-> IF written = st THEN st ELSE [written EXCEPT !.rv = st.rv + 1]]

\* c.Update(ctx, obj): rejected as a conflict unless obj carries the stored
\* resourceVersion; writes metadata and spec of obj, not its status.
Update(st, obj) ==
    IF obj.rv # st.rv
    THEN [err |-> "Conflict", store |-> st]
    ELSE LET written == [st EXCEPT !.finalizers = obj.finalizers]
         IN [err |-> "nil",
             store |-> IF written = st THEN st ELSE [written EXCEPT !.rv = st.rv + 1]]

\* Mutant: the object is fetched once, and a re-run of the closure reuses it.
ClosureGetOnce(c, st) ==
    IF c.gets > 0
    THEN [c EXCEPT !.pc = "update"]
    ELSE [c EXCEPT !.new = st, !.gets = @ + 1, !.pc = "update"]

\* The first statement of every closure: c.Get into a fresh newNodepool.
ClosureGet(c, st) ==
    [c EXCEPT !.new = st, !.gets = @ + 1, !.pc = "update"]

\* Mutant: the closure copies the caller's condition list into the fresh object.
ClosureMutateFromCaller(op, args, fresh, inMemory, now) ==
    CASE op = "UpdateNodePoolStatusCondition" ->
            [fresh EXCEPT !.conditions = inMemory.conditions]
      [] op = "UpdateNodePoolProperties" ->
            [fresh EXCEPT !.properties = inMemory.properties]
      [] op = "UpdateNodePoolSelectedPools" ->
            [fresh EXCEPT !.selectedPools = inMemory.selectedPools]
      [] op = "UpdateNodePoolPluginStatus" ->
            [fresh EXCEPT !.observedGeneration = fresh.generation]
      [] op = "NodepoolAddFinalizer" ->
            [fresh EXCEPT !.finalizers = AddFinalizer(@, NodepoolFinalizer)]
      [] op = "NodepoolRemoveFinalizer" ->
            [fresh EXCEPT !.finalizers = RemoveFinalizer(@, NodepoolFinalizer)]

\* Mutant: the single-field closures write the caller's whole status.
ClosureMutateWholeStatus(op, args, fresh, inMemory, now) ==
    CASE op = "UpdateNodePoolStatusCondition" ->
            [fresh EXCEPT !.conditions =
                SetStatusCondition(fresh.conditions, Provisioned, args.reason,
                                   args.status, args.reason, now)]
      [] op = "UpdateNodePoolProperties" ->
            [fresh EXCEPT !.properties = inMemory.properties,
                          !.conditions = inMemory.conditions]
      [] op = "UpdateNodePoolSelectedPools" ->
            [fresh EXCEPT !.selectedPools = inMemory.selectedPools,
                          !.conditions = inMemory.conditions]
      [] op = "UpdateNodePoolPluginStatus" ->
            [fresh EXCEPT !.observedGeneration = fresh.generation,
                          !.conditions = inMemory.conditions]
      [] op = "NodepoolAddFinalizer" ->
            [fresh EXCEPT !.finalizers = AddFinalizer(@, NodepoolFinalizer)]
      [] op = "NodepoolRemoveFinalizer" ->
            [fresh EXCEPT !.finalizers = RemoveFinalizer(@, NodepoolFinalizer)]

\* Mutant: NodepoolRemoveFinalizer leaves the finalizer on the object it writes.
ClosureMutateKeepsFinalizer(op, args, fresh, inMemory, now) ==
    CASE op = "UpdateNodePoolStatusCondition" ->
            [fresh EXCEPT !.conditions =
                SetStatusCondition(fresh.conditions, Provisioned, args.reason,
                                   args.status, args.reason, now)]
      [] op = "UpdateNodePoolProperties" ->
            [fresh EXCEPT !.properties = inMemory.properties]
      [] op = "UpdateNodePoolSelectedPools" ->
            [fresh EXCEPT !.selectedPools = inMemory.selectedPools]
      [] op = "UpdateNodePoolPluginStatus" ->
            [fresh EXCEPT !.observedGeneration = fresh.generation]
      [] op = "NodepoolAddFinalizer" ->
            [fresh EXCEPT !.finalizers = AddFinalizer(@, NodepoolFinalizer)]
      [] op = "NodepoolRemoveFinalizer" ->
            fresh

\* What each closure does to the freshly fetched newNodepool before writing it.
ClosureMutate(op, args, fresh, inMemory, now) ==
    CASE op = "UpdateNodePoolStatusCondition" ->
            [fresh EXCEPT !.conditions =
                SetStatusCondition(fresh.conditions, Provisioned, args.reason,
                                   args.status, args.reason, now)]
      [] op = "UpdateNodePoolProperties" ->
            [fresh EXCEPT !.properties = inMemory.properties]
      [] op = "UpdateNodePoolSelectedPools" ->
            [fresh EXCEPT !.selectedPools = inMemory.selectedPools]
      [] op = "UpdateNodePoolPluginStatus" ->
            [fresh EXCEPT !.observedGeneration = fresh.generation]
      [] op = "NodepoolAddFinalizer" ->
            [fresh EXCEPT !.finalizers = AddFinalizer(@, NodepoolFinalizer)]
      [] op = "NodepoolRemoveFinalizer" ->
            [fresh EXCEPT !.finalizers = RemoveFinalizer(@, NodepoolFinalizer)]

\* The write that ends each closure.
ClosureWrite(op, st, obj) ==
    IF op \in StatusOps THEN StatusUpdate(st, obj) ELSE Update(st, obj)

\* errors.IsConflict and the transient errors the wrapper retries on.
IsConflictOrRetriable(e) == e \in {"Conflict", "ServiceUnavailable"}

\* RetryOnConflictOrRetriable after a run of the closure returned e: done on
\* success and on a non-retriable error; otherwise run again while the
\* policy has steps left, and return the last error when it has none.
RetryOnConflictOrRetriable(c, e) ==
    IF e = "nil" \/ ~IsConflictOrRetriable(e) \/ c.steps = 1
    THEN [c EXCEPT !.pc = "done", !.err = e]
    ELSE [c EXCEPT !.pc = "get", !.steps = @ - 1]

\* The message each mutation puts in front of the error it returns.
ErrorMessage(op) ==
    CASE op = "UpdateNodePoolStatusCondition" -> "failed to update nodepool condition: name"
      [] op = "UpdateNodePoolProperties" -> "failed to update nodepool properties"
      [] op = "UpdateNodePoolSelectedPools" -> "failed to update nodepool selectedPools"
      [] op = "UpdateNodePoolPluginStatus" -> "failed to update nodepool condition"
      [] op = "NodepoolAddFinalizer" -> "failed to add finalizer to nodepool"
      [] op = "NodepoolRemoveFinalizer" -> "failed to remove finalizer from nodepool"

\* Mutant: the mutation drops the wrapper's error and returns nil.
ReturnErrorSwallowed(c) ==
    c

\* The end of each mutation: once the wrapper is done, its error is returned
\* wrapped (fmt.Errorf with %w), and nil is returned as nil.
ReturnError(c) ==
    IF c.pc = "done" /\ c.err # "nil"
    THEN [c EXCEPT !.ret = [message |-> ErrorMessage(c.op), wraps |-> c.err]]
    ELSE c

\* The reconciliation pass reads the NodePool it is going to work on.
FetchNodePool ==
    /\ call.pc = "idle"
    /\ caller # store
    /\ caller' = store
    /\ UNCHANGED <<createVars, invVars, fsmVars, delVars, aggVars, ledgerVars, nodeVars, store, call>>

\* The pass calls a retried mutation with its in-memory NodePool, in which
\* it has filled in the Properties or SelectedPools it wants stored.
\* UpdateNodePoolStatusCondition first sets the condition on that copy.
CallStart ==
    /\ call.pc = "idle"
    /\ \E op \in Ops :
       \E args \in (IF op = "UpdateNodePoolStatusCondition" THEN CondArgs ELSE {NoArgs}) :
          /\ call' = [IdleCall EXCEPT !.op = op, !.args = args, !.pc = "get",
                                      !.steps = DefaultRetrySteps]
          /\ \E v \in StatusValues :
                caller' =
                    CASE op = "UpdateNodePoolStatusCondition" ->
                            [caller EXCEPT !.conditions =
                                SetStatusCondition(caller.conditions, Provisioned,
                                                   args.reason, args.status, args.reason, clock)]
                      [] op = "UpdateNodePoolProperties" -> [caller EXCEPT !.properties = v]
                      [] op = "UpdateNodePoolSelectedPools" -> [caller EXCEPT !.selectedPools = v]
                      [] OTHER -> caller
    /\ UNCHANGED <<createVars, invVars, fsmVars, delVars, aggVars, ledgerVars, nodeVars, store>>

\* The closure's c.Get succeeds.
ClosureGetStep ==
    /\ call.pc = "get"
    /\ call' = ClosureGet(call, store)
    /\ UNCHANGED <<createVars, invVars, fsmVars, delVars, aggVars, ledgerVars, nodeVars, store, caller>>

\* The closure's c.Get fails with a transient error and the closure returns it.
ClosureGetFails ==
    /\ call.pc = "get"
    /\ call' = ReturnError(RetryOnConflictOrRetriable(
                  [call EXCEPT !.getFails = @ + 1], "ServiceUnavailable"))
    /\ UNCHANGED <<createVars, invVars, fsmVars, delVars, aggVars, ledgerVars, nodeVars, store, caller>>

\* The closure mutates the fetched object and writes it.
ClosureUpdateStep ==
    /\ call.pc = "update"
    /\ LET obj == ClosureMutate(call.op, call.args, call.new, caller, clock)
           w == ClosureWrite(call.op, store, obj)
       IN /\ w.store.rv <= MaxRv
          /\ store' = w.store
          /\ call' = ReturnError(RetryOnConflictOrRetriable(
                        [call EXCEPT !.updates = @ + 1,
                                     !.conflicts = IF w.err = "Conflict" THEN @ + 1 ELSE @],
                        w.err))
    /\ UNCHANGED <<createVars, invVars, fsmVars, delVars, aggVars, ledgerVars, nodeVars, caller>>

\* Another writer changes the spec: the API server bumps metadata.generation.
ExtSpecChange ==
    /\ store.rv < MaxRv
    /\ store.generation < MaxGen
    /\ store' = [store EXCEPT !.generation = @ + 1, !.rv = @ + 1]
    /\ UNCHANGED <<createVars, invVars, fsmVars, delVars, aggVars, ledgerVars, nodeVars, caller, call>>

\* Another writer sets the Configured condition in the status.
ExtSetCondition ==
    /\ store.rv < MaxRv
    /\ \E a \in {[reason |-> InProgress, status |-> ConditionFalse],
                 [reason |-> Completed, status |-> ConditionTrue]} :
          LET conds == SetStatusCondition(store.conditions, Configured, a.reason,
                                          a.status, a.reason, clock)
          IN /\ conds # store.conditions
             /\ store' = [store EXCEPT !.conditions = conds, !.rv = @ + 1]
    /\ UNCHANGED <<createVars, invVars, fsmVars, delVars, aggVars, ledgerVars, nodeVars, caller, call>>

(***************************************************************************)
(* The Node status operations of the metal3 adaptor.                       *)
(***************************************************************************)
\* A Node object: resourceVersion, the config annotation, and the status
\* (BMC with the interfaces of the same bmhNodeInfo, HwProfile, Conditions).
NodeObject(rv, annotated, bmc, hwProfile, conds) ==
    [rv |-> rv, annotated |-> annotated, bmc |-> bmc, hwProfile |-> hwProfile,
     conditions |-> conds]

\* The empty &hwmgmtv1alpha1.Node{} a closure starts with.
EmptyNode == NodeObject(0, FALSE, "nil", "", <<>>)

\* A Node as CreateNode leaves it: a spec and no status.
CreatedNode(annotated) == NodeObject(1, annotated, "nil", "", <<>>)

IdleNodeCall ==
    [op |-> "none", updating |-> FALSE, conditionType |-> "", pc |-> "idle", steps |-> 0,
     new |-> EmptyNode, err |-> "nil", cleared |-> FALSE]

NodeIdle ==
    /\ nodeStore = CreatedNode(FALSE)
    /\ nodeMem = CreatedNode(FALSE)
    /\ nodeCall = IdleNodeCall

\* a.Client.Status().Update(ctx, node): conditional on the resourceVersion,
\* writes the status of the object and nothing else.
NodeStatusUpdate(st, obj) ==
    IF obj.rv # st.rv
    THEN [err |-> "Conflict", store |-> st]
    ELSE LET written == [st EXCEPT !.bmc = obj.bmc, !.hwProfile = obj.hwProfile,
                                   !.conditions = obj.conditions]
         IN [err |-> "nil",
             store |-> IF written = st THEN st ELSE [written EXCEPT !.rv = st.rv + 1]]

\* a.Client.Update(ctx, node): conditional on the resourceVersion, writes the
\* metadata of the object and not its status.
NodeUpdate(st, obj) ==
    IF obj.rv # st.rv
    THEN [err |-> "Conflict", store |-> st]
    ELSE LET written == [st EXCEPT !.annotated = obj.annotated]
         IN [err |-> "nil",
             store |-> IF written = st THEN st ELSE [written EXCEPT !.rv = st.rv + 1]]

\* The status UpdateNodeStatus gives the fetched Node.
UpdateNodeStatusMutate(node, updating, now) ==
    [node EXCEPT
        !.bmc = "addr",
        !.conditions =
            SetStatusCondition(node.conditions, Provisioned,
                               IF updating THEN InProgress ELSE Completed,
                               IF updating THEN ConditionFalse ELSE ConditionTrue,
                               IF updating THEN "Hardware configuration in progess"
                                           ELSE "Provisioned",
                               now),
        !.hwProfile = "hwprofile"]

\* utils.RemoveConfigAnnotation.
RemoveConfigAnnotation(node) == [node EXCEPT !.annotated = FALSE]

\* The condition ApplyPostConfigUpdates sets after the annotation is removed.
PostConfigMutate(node, now) ==
    [node EXCEPT !.conditions =
        SetStatusCondition(node.conditions, Provisioned, Completed, ConditionTrue,
                           "Provisioned", now)]

\* The condition SetNodeFailedStatus sets on the caller's in-memory Node.
FailedMutate(node, conditionType, now) ==
    [node EXCEPT !.conditions =
        SetStatusCondition(node.conditions, conditionType, Failed, ConditionFalse,
                           "failed", now)]

\* retry.OnError(retry.DefaultRetry, errors.IsConflict, fn) after a run of fn
\* returned e.
RetryOnConflict(c, e) ==
    IF e # "Conflict" \/ c.steps = 1
    THEN [c EXCEPT !.pc = "done", !.err = e]
    ELSE [c EXCEPT !.pc = "get", !.steps = @ - 1]

\* The caller reads the Node it is going to pass to an operation.
FetchNode ==
    /\ nodeCall.pc \in {"idle", "done"}
    /\ nodeMem # nodeStore
    /\ nodeMem' = nodeStore
    /\ UNCHANGED <<createVars, invVars, fsmVars, delVars, aggVars, ledgerVars, retryVars, nodeStore, nodeCall>>

\* An adaptor operation is called.
NodeCallStart ==
    /\ nodeCall.pc \in {"idle", "done"}
    /\ \/ \E updating \in BOOLEAN :
             nodeCall' = [IdleNodeCall EXCEPT !.op = "UpdateNodeStatus", !.updating = updating,
                                              !.pc = "get", !.steps = DefaultRetrySteps]
       \/ nodeCall' = [IdleNodeCall EXCEPT !.op = "ApplyPostConfigUpdates", !.pc = "clear",
                                           !.steps = DefaultRetrySteps]
       \/ \E t \in {Provisioned, Configured} :
             nodeCall' = [IdleNodeCall EXCEPT !.op = "SetNodeFailedStatus",
                                              !.conditionType = t, !.pc = "failstatus"]
    /\ UNCHANGED <<createVars, invVars, fsmVars, delVars, aggVars, ledgerVars, retryVars, nodeStore, nodeMem>>

\* ApplyPostConfigUpdates: clearBMHNetworkData succeeds, and the host's
\* network data is cleared, or fails.
ClearBMHNetworkData ==
    /\ nodeCall.pc = "clear"
    /\ \/ nodeCall' = [nodeCall EXCEPT !.pc = "get", !.cleared = TRUE]
       \/ nodeCall' = [nodeCall EXCEPT !.pc = "done", !.err = "clearBMHNetworkData"]
    /\ UNCHANGED <<createVars, invVars, fsmVars, delVars, aggVars, ledgerVars, retryVars, nodeStore, nodeMem>>

\* Mutant: the closure of ApplyPostConfigUpdates goes from the fetch to the
\* status write, the annotation still on the Node.
NodeGetThenStatus ==
    /\ nodeCall.pc = "get"
    /\ nodeCall' = [nodeCall EXCEPT !.new = nodeStore, !.pc = "status"]
    /\ UNCHANGED <<createVars, invVars, fsmVars, delVars, aggVars, ledgerVars, retryVars, nodeStore, nodeMem>>

\* The closure of UpdateNodeStatus and of ApplyPostConfigUpdates fetches the Node.
NodeGet ==
    /\ nodeCall.pc = "get"
    /\ nodeCall' = [nodeCall EXCEPT !.new = nodeStore,
                       !.pc = IF nodeCall.op = "UpdateNodeStatus" THEN "status" ELSE "update"]
    /\ UNCHANGED <<createVars, invVars, fsmVars, delVars, aggVars, ledgerVars, retryVars, nodeStore, nodeMem>>

\* ApplyPostConfigUpdates removes the config annotation and updates the Node;
\* the client refreshes the object's resourceVersion from the response.
NodeRemoveAnnotation ==
    /\ nodeCall.pc = "update"
    /\ LET obj == RemoveConfigAnnotation(nodeCall.new)
           w == NodeUpdate(nodeStore, obj)
       IN /\ w.store.rv <= MaxNodeRv
          /\ nodeStore' = w.store
          /\ nodeCall' = IF w.err = "nil"
                         THEN [nodeCall EXCEPT !.new = [obj EXCEPT !.rv = w.store.rv],
                                               !.pc = "status"]
                         ELSE RetryOnConflict(nodeCall, w.err)
    /\ UNCHANGED <<createVars, invVars, fsmVars, delVars, aggVars, ledgerVars, retryVars, nodeMem>>

\* The closure sets the Provisioned condition and updates the status.
NodeWriteStatus ==
    /\ nodeCall.pc = "status"
    /\ LET obj == IF nodeCall.op = "UpdateNodeStatus"
                  THEN UpdateNodeStatusMutate(nodeCall.new, nodeCall.updating, clock)
                  ELSE PostConfigMutate(nodeCall.new, clock)
           w == NodeStatusUpdate(nodeStore, obj)
       IN /\ w.store.rv <= MaxNodeRv
          /\ nodeStore' = w.store
          /\ nodeCall' = RetryOnConflict(nodeCall, w.err)
    /\ UNCHANGED <<createVars, invVars, fsmVars, delVars, aggVars, ledgerVars, retryVars, nodeMem>>

\* SetNodeFailedStatus: sets the condition on the caller's Node and writes
\* that object, once.
NodeSetFailed ==
    /\ nodeCall.pc = "failstatus"
    /\ LET obj == FailedMutate(nodeMem, nodeCall.conditionType, clock)
           w == NodeStatusUpdate(nodeStore, obj)
       IN /\ w.store.rv <= MaxNodeRv
          /\ nodeStore' = w.store
          /\ nodeMem' = IF w.err = "nil" THEN [obj EXCEPT !.rv = w.store.rv] ELSE obj
          /\ nodeCall' = [nodeCall EXCEPT !.pc = "done", !.err = w.err]
    /\ UNCHANGED <<createVars, invVars, fsmVars, delVars, aggVars, ledgerVars, retryVars>>

\* Another writer changes the Node's metadata: the config annotation is set
\* to request a configuration change.
ExtNodeWrite ==
    /\ nodeStore.rv < MaxNodeRv
    /\ nodeStore' = [nodeStore EXCEPT !.annotated = ~@, !.rv = @ + 1]
    /\ UNCHANGED <<createVars, invVars, fsmVars, delVars, aggVars, ledgerVars, retryVars, nodeMem, nodeCall>>

InitNode ==
    /\ FsmIdle
    /\ RetryIdle
    /\ NodeIdle
    /\ DeletionIdle
    /\ AggIdle
    /\ LedgerIdle
    /\ CreateIdle
    /\ InventoryIdle

NextNode ==
    \/ FetchNode
    \/ NodeCallStart
    \/ ClearBMHNetworkData
    \/ NodeGet
    \/ NodeRemoveAnnotation
    \/ NodeWriteStatus
    \/ NodeSetFailed
    \/ ExtNodeWrite

SpecNode == InitNode /\ [][NextNode]_vars

(***************************************************************************)
(* Creation of Node objects: CreateNode of the metal3 adaptor, and          *)
(* AllocateNode of the dell-hwmgr adaptor with the validation, creation and *)
(* status update it runs.                                                   *)
(***************************************************************************)
CreateAdaptors == {"metal3", "dell-hwmgr"}

\* The names a Node can be given.
NodeNames == {"n1", "n2"}

\* The NodePools being reconciled: name, UID and Spec.HwMgrId.  Two of them
\* share a name: a NodePool deleted and created again gets a new UID.
OwnerPools ==
    {[name |-> "np1", uid |-> "u1", hwMgrId |-> "hw1"],
     [name |-> "np1", uid |-> "u2", hwMgrId |-> "hw1"],
     [name |-> "np2", uid |-> "u3", hwMgrId |-> "hw2"]}

\* The NodePools the dell-hwmgr adaptor allocates for: the two that share a
\* name.
DellPools == {np \in OwnerPools : np.name = "np1"}

\* The remaining arguments of the metal3 CreateNode.
NodeArgs ==
    {[cloudID |-> "c1", nodeId |-> "bmh1", nodeNs |-> "ns1", groupname |-> "g1",
      hwprofile |-> "p1"],
     [cloudID |-> "c2", nodeId |-> "bmh2", nodeNs |-> "ns2", groupname |-> "g2",
      hwprofile |-> "p2"]}

\* The resources the Dell hardware manager can return: the Id, ResourcePoolId,
\* ResourceProfileID and Name pointers, each pointer of the ResourceAttribute
\* chain and each level of the Extensions map are set or nil, and the nads
\* value decodes as a list of interfaces or does not.  The code reads Id
\* first, then the validated fields, then ResourcePoolId, ResourceProfileID
\* and, after the Node was created and fetched, Name; a field it does not
\* get to read, because a nil pointer before it ends the call, is listed
\* set.  Without Id, three resources are listed: a valid one, one with no
\* ResourceAttribute and one with malformed NIC data.
Resources ==
    LET chains == {c \in [hasResourceAttribute : BOOLEAN, hasCompute : BOOLEAN,
                          hasLom : BOOLEAN, hasIpAddress : BOOLEAN,
                          hasPassword : BOOLEAN] :
                      /\ c.hasCompute => c.hasResourceAttribute
                      /\ c.hasLom => c.hasCompute
                      /\ c.hasIpAddress => c.hasLom
                      /\ c.hasPassword => c.hasLom}
        extensions == {x \in [hasExtensions : BOOLEAN, hasNics : BOOLEAN,
                              hasNads : BOOLEAN,
                              nads : {"none", "interfaces", "malformed"}] :
                          /\ x.hasNics => x.hasExtensions
                          /\ x.hasNads => x.hasNics
                          /\ (x.nads = "none") <=> ~x.hasNads}
        all == {[hasId |-> id # "", id |-> id,
                 hasResourcePoolId |-> pool # "", resourcePoolId |-> pool,
                 hasResourceProfileID |-> profile # "", resourceProfileID |-> profile,
                 hasResourceAttribute |-> c.hasResourceAttribute,
                 hasCompute |-> c.hasCompute, hasLom |-> c.hasLom,
                 hasIpAddress |-> c.hasIpAddress, hasPassword |-> c.hasPassword,
                 hasExtensions |-> x.hasExtensions, hasNics |-> x.hasNics,
                 hasNads |-> x.hasNads, nads |-> x.nads, hasName |-> name] :
                   id \in NodeNames \cup {""}, pool \in {"g1", ""}, profile \in {"p1", ""},
                   c \in chains, x \in extensions, name \in BOOLEAN}
    IN {r \in all :
          /\ ~r.hasId => /\ r.hasResourcePoolId /\ r.hasResourceProfileID /\ r.hasName
                         /\ r.hasNads
                         /\ r.hasResourceAttribute => (r.hasIpAddress /\ r.hasPassword)
                         /\ ~r.hasResourceAttribute => r.nads = "interfaces"
          /\ ~r.hasResourcePoolId => /\ r.hasResourceProfileID /\ r.hasName
                                     /\ r.hasIpAddress /\ r.hasPassword
                                     /\ r.nads = "interfaces"
          /\ ~r.hasResourceProfileID => /\ r.hasName
                                        /\ r.hasIpAddress /\ r.hasPassword
                                        /\ r.nads = "interfaces"
          /\ ~r.hasName => (r.hasIpAddress /\ r.hasPassword /\ r.nads = "interfaces")}

\* An error made by fmt.Errorf: its message and, with %w, the error it wraps.
Error(message, wraps) == [message |-> message, wraps |-> wraps]

\* A Node object: its owner references, its spec and whether its status has
\* been filled in.
NewNode(owners, nodePool, groupName, hwProfile, hwMgrId, hwMgrNodeNs, hwMgrNodeId) ==
    [owners |-> owners,
     spec |-> [nodePool |-> nodePool, groupName |-> groupName, hwProfile |-> hwProfile,
               hwMgrId |-> hwMgrId, hwMgrNodeNs |-> hwMgrNodeNs,
               hwMgrNodeId |-> hwMgrNodeId],
     provisioned |-> FALSE]

\* Mutant: the owner reference names the NodePool and leaves its UID out.
OwnerReferenceNoUID(np) == [name |-> np.name, uid |-> ""]

\* The owner reference both adaptors build from the NodePool being reconciled.
OwnerReference(np) == [name |-> np.name, uid |-> np.uid]

\* a.Client.Get for a Node: nil when stored, NotFound when not, or a failure
\* of the request.
ClientGetNode(objs, nodename, fails) ==
    IF fails THEN "InternalError"
    ELSE IF nodename \in DOMAIN objs THEN "nil" ELSE "NotFound"

\* a.Client.Create for a Node: the API server stores the object under a name
\* not taken, and rejects it otherwise.
ClientCreateNode(objs, nodename, node, fails) ==
    IF fails THEN [err |-> "InternalError", objs |-> objs]
    ELSE IF nodename \in DOMAIN objs THEN [err |-> "AlreadyExists", objs |-> objs]
    ELSE [err |-> "nil",
          objs |-> [n \in DOMAIN objs \cup {nodename} |->
                       IF n = nodename THEN node ELSE objs[n]]]

\* Mutant: the Create of the metal3 CreateNode replaces a Node stored under
\* the name.
CreateNodeMetal3CreateOverwrites(objs, np, nodename, args, createFails) ==
    LET node == NewNode(<<OwnerReference(np)>>, args.cloudID, args.groupname,
                        args.hwprofile, np.hwMgrId, args.nodeNs, args.nodeId)
    IN [err |-> NilError,
        objs |-> [n \in DOMAIN objs \cup {nodename} |->
                     IF n = nodename THEN node ELSE objs[n]]]

\* CreateNode of the metal3 adaptor up to its Create: the Get, after which
\* the call returns nil when the Node is stored, returns the error when the
\* Get failed otherwise than with NotFound, and goes on when it is NotFound.
CreateNodeMetal3Get(objs, nodename, getFails) ==
    LET err == ClientGetNode(objs, nodename, getFails)
    IN IF err = "nil"
       THEN [returns |-> TRUE, err |-> NilError, get |-> err]
       ELSE IF err # "NotFound"
       THEN [returns |-> TRUE, err |-> Error("failed to check if node exists", err),
             get |-> err]
       ELSE [returns |-> FALSE, err |-> NilError, get |-> err]

\* CreateNode of the metal3 adaptor from the Get's NotFound on: the Node is
\* built and created.
CreateNodeMetal3Create(objs, np, nodename, args, createFails) ==
    LET node == NewNode(<<OwnerReference(np)>>, args.cloudID,
                        args.groupname, args.hwprofile, np.hwMgrId,
                        args.nodeNs, args.nodeId)
        w == ClientCreateNode(objs, nodename, node, createFails)
    IN IF w.err # "nil"
       THEN [err |-> Error("failed to create Node", w.err), objs |-> w.objs]
       ELSE [err |-> NilError, objs |-> w.objs]

\* parseExtensionInterfaces of the dell-hwmgr adaptor.  json.Marshal of a
\* value that was decoded from JSON does not fail.
parseExtensionInterfaces(resource) ==
    IF ~resource.hasExtensions
    THEN [interfaces |-> "nil",
          err |-> Error("resource structure missing required extensions field", "none")]
    ELSE IF ~resource.hasNics
    THEN [interfaces |-> "nil",
          err |-> Error("resource structure missing required extensions nics field", "none")]
    ELSE IF ~resource.hasNads
    THEN [interfaces |-> "nil",
          err |-> Error("resource structure missing required extensions nads field", "none")]
    ELSE IF resource.nads # "interfaces"
    THEN [interfaces |-> "nil",
          err |-> Error("resource structure contains invalid nic data format", "none")]
    ELSE [interfaces |-> resource.nads, err |-> NilError]

\* ValidateNodeConfig of the dell-hwmgr adaptor.
ValidateNodeConfig(resource) ==
    IF \/ ~resource.hasResourceAttribute
       \/ ~resource.hasCompute
       \/ ~resource.hasLom
       \/ ~resource.hasIpAddress
       \/ ~resource.hasPassword
    THEN Error("resource structure missing required resource attribute field", "none")
    ELSE IF parseExtensionInterfaces(resource).err # NilError
    THEN Error("invalid interface list", parseExtensionInterfaces(resource).err.message)
    ELSE NilError

\* What a dereference of a nil pointer ends the call with: a panic, not a
\* returned error.
NilPointerPanic ==
    Error("panic: runtime error: invalid memory address or nil pointer dereference", "none")

\* CreateNode of the dell-hwmgr adaptor: Id, ResourcePoolId and
\* ResourceProfileID are dereferenced unchecked, then the Node is built and
\* created.
CreateNodeDell(objs, np, resource, createFails) ==
    IF ~resource.hasId \/ ~resource.hasResourcePoolId \/ ~resource.hasResourceProfileID
    THEN [err |-> NilPointerPanic, objs |-> objs]
    ELSE LET node == NewNode(<<OwnerReference(np)>>, np.name,
                             resource.resourcePoolId, resource.resourceProfileID,
                             "", "", "")
             w == ClientCreateNode(objs, resource.id, node, createFails)
         IN IF w.err # "nil"
            THEN [err |-> Error("failed to create Node", w.err), objs |-> w.objs]
            ELSE [err |-> NilError, objs |-> w.objs]

\* The errors on which RetryOnConflictOrRetriableOrNotFound runs its
\* function again: those of RetryOnConflictOrRetriable and, at the first
\* attempt, NotFound.
IsConflictOrRetriableOrNotFound(e, first) ==
    IsConflictOrRetriable(e) \/ (e = "NotFound" /\ first)

\* What a Get of the Node can answer: what the store holds, NotFound from a
\* cache that is behind the store, a transient error or another error.
GetNodeAnswers(objs, nodename) ==
    {ClientGetNode(objs, nodename, FALSE), ClientGetNode(objs, nodename, TRUE),
     "NotFound", "ServiceUnavailable"}

\* UpdateNodeStatus of the dell-hwmgr adaptor up to its status write, at an
\* attempt of its retried Get that got answer with steps attempts left: Id
\* is dereferenced unchecked before the first Get; a Get that failed is made
\* again when the error is one the wrapper retries on and an attempt is
\* left; after the Get the BMC is filled in from the resource's Lom
\* IpAddress and Password and the hostname from its Name, each dereferenced
\* unchecked; then the interfaces are parsed and the Provisioned condition
\* is set.
UpdateNodeStatusDellGet(resource, answer, steps) ==
    IF ~resource.hasId
    THEN [outcome |-> "panic", err |-> NilPointerPanic]
    ELSE IF /\ answer # "nil"
            /\ IsConflictOrRetriableOrNotFound(answer, steps = DefaultRetrySteps)
            /\ steps > 1
    THEN [outcome |-> "retry", err |-> NilError]
    ELSE IF answer # "nil"
    THEN [outcome |-> "error", err |-> Error("failed to get Node for update", answer)]
    ELSE IF \/ ~resource.hasResourceAttribute
            \/ ~resource.hasCompute
            \/ ~resource.hasLom
            \/ ~resource.hasIpAddress
            \/ ~resource.hasPassword
            \/ ~resource.hasName
    THEN [outcome |-> "panic", err |-> NilPointerPanic]
    ELSE IF parseExtensionInterfaces(resource).err # NilError
    THEN [outcome |-> "error",
          err |-> Error("invalid interface list", "failed to parse interface data")]
    ELSE [outcome |-> "write", err |-> NilError]

\* The status write that ends UpdateNodeStatus of the dell-hwmgr adaptor.
UpdateNodeStatusDellWrite(objs, resource, writeFails) ==
    IF writeFails \/ resource.id \notin DOMAIN objs
    THEN [err |-> Error("failed to update status for node", "InternalError"),
          objs |-> objs]
    ELSE [err |-> NilError,
          objs |-> [objs EXCEPT ![resource.id].provisioned = TRUE]]

\* AllocateNode of the dell-hwmgr adaptor up to its call of UpdateNodeStatus:
\* Id is dereferenced unchecked, then come the validation and CreateNode,
\* after either of which it returns the error with no node name.
AllocateNode(objs, np, resource, createFails) ==
    LET v == ValidateNodeConfig(resource)
        c == CreateNodeDell(objs, np, resource, createFails)
    IN IF ~resource.hasId
       THEN [returns |-> FALSE, panics |-> TRUE, name |-> "", err |-> NilPointerPanic,
             objs |-> objs, trace |-> <<>>]
       ELSE IF v # NilError
       THEN [returns |-> TRUE, panics |-> FALSE, name |-> "",
             err |-> Error("failed to validate resource configuration", v.message),
             objs |-> objs, trace |-> <<"ValidateNodeConfig">>]
       ELSE IF c.err = NilPointerPanic
       THEN [returns |-> FALSE, panics |-> TRUE, name |-> "", err |-> NilPointerPanic,
             objs |-> c.objs, trace |-> <<"ValidateNodeConfig", "CreateNode">>]
       ELSE IF c.err # NilError
       THEN [returns |-> TRUE, panics |-> FALSE, name |-> "",
             err |-> Error("failed to create allocated node", c.err.message),
             objs |-> c.objs, trace |-> <<"ValidateNodeConfig", "CreateNode">>]
       ELSE [returns |-> FALSE, panics |-> FALSE, name |-> resource.id, err |-> NilError,
             objs |-> c.objs, trace |-> <<"ValidateNodeConfig", "CreateNode">>]

\* Mutant: AllocateNode drops the error of the status update.
AllocateNodeReturnDropsError(nodename, err) ==
    [name |-> nodename, err |-> NilError]

\* What AllocateNode returns after UpdateNodeStatus returned err: the node
\* name, with the error wrapped when there is one.
AllocateNodeReturn(nodename, err) ==
    IF err # NilError
    THEN [name |-> nodename, err |-> Error("failed to update node status", err.message)]
    ELSE [name |-> nodename, err |-> NilError]

\* The metal3 adaptor calls CreateNode for a NodePool it reconciles: the
\* call makes its Get.
CreateNodeCall ==
    /\ creation.adaptor = "metal3"
    /\ creation.pc = "idle"
    /\ creation.calls < MaxCreates
    /\ \E np \in OwnerPools, nodename \in NodeNames, args \in NodeArgs,
          getFails \in BOOLEAN :
          LET g == CreateNodeMetal3Get(nodeObjs, nodename, getFails)
          IN creation' = [creation EXCEPT
                 !.fn = "CreateNode", !.nodepool = np, !.nodename = nodename,
                 !.args = args, !.existed = nodename \in DOMAIN nodeObjs,
                 !.get = g.get, !.trace = <<"CreateNode">>, !.faulted = getFails,
                 !.pc = IF g.returns THEN "idle" ELSE "create",
                 !.panicked = FALSE, !.rerun = FALSE,
                 !.name = nodename, !.ret = g.err, !.calls = @ + 1]
    /\ UNCHANGED <<invVars, fsmVars, retryVars, nodeVars, delVars, aggVars, ledgerVars,
                   nodeObjs>>

\* The CreateNode call, whose Get found no Node, makes its Create and returns.
CreateNodeCreate ==
    /\ creation.fn = "CreateNode"
    /\ creation.pc = "create"
    /\ \E createFails \in BOOLEAN :
          LET w == CreateNodeMetal3Create(nodeObjs, creation.nodepool, creation.nodename,
                                          creation.args, createFails)
          IN /\ nodeObjs' = w.objs
             /\ creation' = [creation EXCEPT !.ret = w.err, !.pc = "idle",
                                             !.faulted = @ \/ createFails]
    /\ UNCHANGED <<invVars, fsmVars, retryVars, nodeVars, delVars, aggVars, ledgerVars>>

\* The dell-hwmgr adaptor calls AllocateNode with a resource the hardware
\* manager returned for a NodePool: the call validates the resource, makes
\* its Create and calls UpdateNodeStatus.  faulted records that a request of
\* the call was made to fail, and rerun that the call before it, for the
\* same resource, returned the error of the status update and left the Node
\* stored.
AllocateNodeCall ==
    /\ creation.adaptor = "dell-hwmgr"
    /\ creation.pc = "idle"
    /\ creation.calls < MaxAllocations
    /\ \E np \in DellPools, resource \in Resources :
       \E createFails \in IF /\ resource.hasId
                             /\ ValidateNodeConfig(resource) = NilError
                             /\ CreateNodeDell(nodeObjs, np, resource, FALSE).err
                                   # NilPointerPanic
                           THEN BOOLEAN ELSE {FALSE} :
          LET r == AllocateNode(nodeObjs, np, resource, createFails)
              over == r.returns \/ r.panics
          IN /\ nodeObjs' = r.objs
             /\ creation' = [creation EXCEPT
                    !.fn = "AllocateNode", !.nodepool = np,
                    !.nodename = resource.id, !.resource = resource,
                    !.existed = resource.id \in DOMAIN nodeObjs,
                    !.faulted = createFails,
                    !.pc = IF over THEN "idle" ELSE "statusget",
                    !.steps = IF over THEN 0 ELSE DefaultRetrySteps,
                    !.panicked = r.panics,
                    !.rerun = /\ creation.fn = "AllocateNode"
                              /\ creation.ret.message = "failed to update node status"
                              /\ creation.resource = resource
                              /\ resource.id \in DOMAIN nodeObjs,
                    !.trace = IF over THEN r.trace
                              ELSE Append(r.trace, "UpdateNodeStatus"),
                    !.name = IF r.returns THEN r.name ELSE "",
                    !.ret = r.err, !.calls = @ + 1]
    /\ UNCHANGED <<invVars, fsmVars, retryVars, nodeVars, delVars, aggVars, ledgerVars>>

\* UpdateNodeStatus, called by AllocateNode, makes an attempt of its retried
\* Get: on an error the wrapper retries on, with an attempt left, the call
\* waits to make the next one; otherwise it fills in the status of the
\* fetched Node and goes on to the status write, returns an error, or
\* panics.
AllocateNodeGet ==
    /\ creation.fn = "AllocateNode"
    /\ creation.pc = "statusget"
    /\ \E answer \in GetNodeAnswers(nodeObjs, creation.resource.id) :
          LET u == UpdateNodeStatusDellGet(creation.resource, answer, creation.steps)
              r == AllocateNodeReturn(creation.resource.id, u.err)
              c == [creation EXCEPT
                       !.faulted = @ \/ answer # ClientGetNode(nodeObjs,
                                                               creation.resource.id,
                                                               FALSE)]
          IN creation' =
                CASE u.outcome = "retry" -> [c EXCEPT !.steps = @ - 1]
                  [] u.outcome = "write" -> [c EXCEPT !.pc = "statuswrite", !.steps = 0]
                  [] u.outcome = "panic" ->
                        [c EXCEPT !.pc = "idle", !.steps = 0, !.panicked = TRUE,
                                  !.ret = u.err]
                  [] u.outcome = "error" ->
                        [c EXCEPT !.pc = "idle", !.steps = 0, !.name = r.name,
                                  !.ret = r.err]
    /\ UNCHANGED <<invVars, fsmVars, retryVars, nodeVars, delVars, aggVars, ledgerVars,
                   nodeObjs>>

\* UpdateNodeStatus writes the status, and AllocateNode returns.
AllocateNodeWrite ==
    /\ creation.fn = "AllocateNode"
    /\ creation.pc = "statuswrite"
    /\ \E writeFails \in BOOLEAN :
          LET w == UpdateNodeStatusDellWrite(nodeObjs, creation.resource, writeFails)
              r == AllocateNodeReturn(creation.resource.id, w.err)
          IN /\ nodeObjs' = w.objs
             /\ creation' = [creation EXCEPT !.pc = "idle", !.name = r.name,
                                             !.ret = r.err, !.faulted = @ \/ writeFails]
    /\ UNCHANGED <<invVars, fsmVars, retryVars, nodeVars, delVars, aggVars, ledgerVars>>

\* Another creator (an overlapping call, or another client) stores a Node
\* under a name not taken, between two requests of the adaptor.
ExtCreateNode ==
    /\ creation.pc # "idle"
    /\ \E nodename \in NodeNames \ DOMAIN nodeObjs,
          np \in IF creation.adaptor = "metal3" THEN OwnerPools ELSE DellPools :
       \E args \in IF creation.adaptor = "metal3" THEN NodeArgs ELSE {NoNodeArgs} :
          LET node == IF creation.adaptor = "metal3"
                      THEN NewNode(<<OwnerReference(np)>>, args.cloudID, args.groupname,
                                   args.hwprofile, np.hwMgrId, args.nodeNs, args.nodeId)
                      ELSE NewNode(<<OwnerReference(np)>>, np.name, "g1", "p1", "", "", "")
          IN /\ nodeObjs' = ClientCreateNode(nodeObjs, nodename, node, FALSE).objs
             /\ creation' = [creation EXCEPT !.foreign = @ \cup {nodename}]
    /\ UNCHANGED <<invVars, fsmVars, retryVars, nodeVars, delVars, aggVars, ledgerVars>>

\* The other creator, an overlapping AllocateNode call, writes the status of
\* the Node it created.
ExtStatusWrite ==
    /\ creation.adaptor = "dell-hwmgr"
    /\ creation.pc # "idle"
    /\ \E nodename \in creation.foreign :
          /\ ~nodeObjs[nodename].provisioned
          /\ nodeObjs' = [nodeObjs EXCEPT ![nodename].provisioned = TRUE]
    /\ UNCHANGED <<invVars, fsmVars, retryVars, nodeVars, delVars, aggVars, ledgerVars,
                   creation>>

InitCreate ==
    /\ FsmIdle
    /\ RetryIdle
    /\ NodeIdle
    /\ DeletionIdle
    /\ AggIdle
    /\ LedgerIdle
    /\ InventoryIdle
    /\ nodeObjs = NoNodes
    /\ \E a \in CreateAdaptors : creation = [NoCreation EXCEPT !.adaptor = a]

NextCreate ==
    \/ CreateNodeCall
    \/ CreateNodeCreate
    \/ AllocateNodeCall
    \/ AllocateNodeGet
    \/ AllocateNodeWrite
    \/ ExtCreateNode
    \/ ExtStatusWrite

SpecCreate == InitCreate /\ [][NextCreate]_vars

(***************************************************************************)
(* Specification of the failures of node allocation and of the Node status *)
(* operations: the metal3 adaptor runs its Node operations, whose Get can  *)
(* fail, and the dell-hwmgr adaptor allocates nodes.                       *)
(***************************************************************************)
\* The closure's Get fails: the closure returns the wrapped error, which is
\* not a conflict, so retry.OnError returns it.
NodeGetFails ==
    /\ nodeCall.pc = "get"
    /\ nodeCall' = RetryOnConflict(nodeCall, "failed to fetch Node")
    /\ UNCHANGED <<createVars, invVars, fsmVars, delVars, aggVars, ledgerVars, retryVars, nodeStore, nodeMem>>

\* A step of a Node operation of the metal3 adaptor.
NodeOperationStep ==
    /\ creation.adaptor = "metal3"
    /\ (NextNode \/ NodeGetFails)

\* A step of a node allocation of the dell-hwmgr adaptor.
AllocationStep ==
    \/ AllocateNodeCall
    \/ AllocateNodeGet
    \/ AllocateNodeWrite
    \/ ExtCreateNode
    \/ ExtStatusWrite

NextFailures ==
    \/ NodeOperationStep
    \/ creation.adaptor = "dell-hwmgr" /\ AllocationStep

SpecFailures == InitCreate /\ [][NextFailures]_vars

(***************************************************************************)
(* The inventory queries: GetResourcePools and GetResources of the metal3  *)
(* and loopback adaptors, and the metal3 eligibility predicate.            *)
(***************************************************************************)
StatusOK == 200
StatusInternalServerError == 500
StatusServiceUnavailable == 503

StateNone == ""
StateAvailable == "available"
StatePreparing == "preparing"
StateProvisioning == "provisioning"
StateProvisioned == "provisioned"
StateDeprovisioning == "deprovisioning"

ProvisioningStates ==
    {StateNone, StateAvailable, StatePreparing, StateProvisioning, StateProvisioned,
     StateDeprovisioning}

\* A BareMetalHost as the inventory reads it: whether its label map is nil,
\* the values the map gives for the resource-pool and site labels ("" for a
\* label that is not set), and Status.Provisioning.State.
BareMetalHosts ==
    {b \in [labelsNil : BOOLEAN, poolId : {"", "pool1"}, siteId : {"", "site1"},
            state : ProvisioningStates] :
        b.labelsNil => (b.poolId = "" /\ b.siteId = "")}

\* The lists of at most n BareMetalHosts.
RECURSIVE HostLists(_)
HostLists(n) ==
    IF n = 0 THEN {<<>>}
    ELSE HostLists(n - 1)
         \cup {Append(l, b) : l \in {x \in HostLists(n - 1) : Len(x) = n - 1},
                              b \in BareMetalHosts}

\* Why a request to the backend failed.
FailureCauses == {"Unreachable", "Internal"}

\* Mutant: a host is listed whatever its site label.
includeInInventoryIgnoresSite(bmh) ==
    IF bmh.labelsNil \/ bmh.poolId = ""
    THEN FALSE
    ELSE bmh.state \in {StateAvailable, StateProvisioning, StateProvisioned, StatePreparing}

\* includeInInventory of the metal3 adaptor.
includeInInventory(bmh) ==
    IF bmh.labelsNil \/ bmh.poolId = "" \/ bmh.siteId = ""
    THEN FALSE
    ELSE IF bmh.state \in {StateAvailable, StateProvisioning, StateProvisioned,
                           StatePreparing}
    THEN TRUE
    ELSE FALSE

\* getResourceInfo: the record of host i of the list, with the hardware
\* profile of the Node allocated on it, if there is one.
getResourceInfo(bmh, i, nodes) ==
    [resourceId |-> i, resourcePoolId |-> bmh.poolId,
     hwProfile |-> IF i \in nodes THEN "profile" ELSE ""]

\* The pool record GetResourcePools makes of a host.
ResourcePoolInfo(bmh) ==
    [resourcePoolId |-> bmh.poolId, name |-> bmh.poolId, siteId |-> bmh.siteId]

\* The loop of GetResources over the first n items of the list.
RECURSIVE ResourcesOf(_, _, _)
ResourcesOf(bmhs, n, nodes) ==
    IF n = 0 THEN <<>>
    ELSE IF includeInInventory(bmhs[n])
    THEN Append(ResourcesOf(bmhs, n - 1, nodes), getResourceInfo(bmhs[n], n, nodes))
    ELSE ResourcesOf(bmhs, n - 1, nodes)

\* The loop of GetResourcePools over the first n items of the list.
RECURSIVE ResourcePoolsOf(_, _)
ResourcePoolsOf(bmhs, n) ==
    IF n = 0 THEN <<>>
    ELSE IF includeInInventory(bmhs[n])
    THEN Append(ResourcePoolsOf(bmhs, n - 1), ResourcePoolInfo(bmhs[n]))
    ELSE ResourcePoolsOf(bmhs, n - 1)

\* GetResourcePools of the metal3 adaptor; listErr is what a.Client.List
\* returned.
GetResourcePoolsMetal3(bmhs, listErr) ==
    IF listErr # "nil"
    THEN [resp |-> <<>>, status |-> StatusInternalServerError,
          err |-> Error("failed to get bmh list", listErr)]
    ELSE [resp |-> ResourcePoolsOf(bmhs, Len(bmhs)), status |-> StatusOK, err |-> NilError]

\* GetResources of the metal3 adaptor; nodesErr is what GetBMHToNodeMap
\* returned and listErr what a.Client.List returned.
GetResourcesMetal3(bmhs, nodes, nodesErr, listErr) ==
    IF nodesErr # "nil"
    THEN [resp |-> <<>>, status |-> StatusInternalServerError,
          err |-> Error("failed to query current nodes", nodesErr)]
    ELSE IF listErr # "nil"
    THEN [resp |-> <<>>, status |-> StatusInternalServerError,
          err |-> Error("failed to get bmh list", listErr)]
    ELSE [resp |-> ResourcesOf(bmhs, Len(bmhs), nodes), status |-> StatusOK,
          err |-> NilError]

\* What GetCurrentResources of the loopback adaptor reads: the resource
\* pools, in order, and the map from a node's name to its pool.
LoopbackNodes == {"dummy-sp-64g-0", "dummy-sp-64g-1"}
LoopbackResources ==
    {[pools |-> <<>>, nodes |-> <<>>],
     [pools |-> <<"pool1">>, nodes |-> [n \in {"dummy-sp-64g-0"} |-> "pool1"]],
     [pools |-> <<"pool1", "pool2">>,
      nodes |-> [n \in LoopbackNodes |->
                    IF n = "dummy-sp-64g-0" THEN "pool1" ELSE "pool2"]]}

\* The orders in which a range statement can go over the keys of a map.
MapOrders(m) ==
    {o \in [1..Cardinality(DOMAIN m) -> DOMAIN m] :
        \A k \in DOMAIN m : \E i \in DOMAIN o : o[i] = k}

\* GetResourcePools of the loopback adaptor; err is what GetCurrentResources
\* returned.
GetResourcePoolsLoopback(resources, err) ==
    IF err # "nil"
    THEN [resp |-> <<>>, status |-> StatusServiceUnavailable,
          err |-> Error("unable to get current resources", err)]
    ELSE [resp |-> [i \in DOMAIN resources.pools |->
                       [resourcePoolId |-> resources.pools[i], name |-> resources.pools[i],
                        siteId |-> "n/a"]],
          status |-> StatusOK, err |-> NilError]

\* GetResources of the loopback adaptor.  The nodes are ranged over in the
\* order the map gives them, which is order; a record gets the node's pool,
\* the description "n/a" and the node's name, and neither a resource id nor
\* a hardware profile.
GetResourcesLoopback(resources, order, err) ==
    IF err # "nil"
    THEN [resp |-> <<>>, status |-> StatusServiceUnavailable,
          err |-> Error("unable to get current resources", err)]
    ELSE [resp |-> [i \in DOMAIN order |->
                       [resourceId |-> "", resourcePoolId |-> resources.nodes[order[i]],
                        hwProfile |-> "", description |-> "n/a", name |-> order[i]]],
          status |-> StatusOK, err |-> NilError]

\* The inventory server asks an adaptor for its resource pools.
GetResourcePoolsCall ==
    /\ inventory = NoInventory
    /\ \/ \E listErr \in FailureCauses \cup {"nil"} :
             LET r == GetResourcePoolsMetal3(hosts, listErr)
             IN inventory' = [adaptor |-> "metal3", fn |-> "GetResourcePools",
                              records |-> r.resp, status |-> r.status, err |-> r.err,
                              cause |-> listErr, pc |-> "done", nodes |-> {}]
       \/ \E err \in FailureCauses \cup {"nil"} :
          \E resources \in IF err = "nil" THEN LoopbackResources
                                          ELSE {[pools |-> <<>>, nodes |-> <<>>]} :
             LET r == GetResourcePoolsLoopback(resources, err)
             IN inventory' = [adaptor |-> "loopback", fn |-> "GetResourcePools",
                              records |-> r.resp, status |-> r.status, err |-> r.err,
                              cause |-> err, pc |-> "done", nodes |-> {}]
    /\ UNCHANGED <<createVars, fsmVars, retryVars, nodeVars, delVars, aggVars, ledgerVars, hosts>>

\* The inventory server asks an adaptor for its resources.  The metal3
\* adaptor makes its first request, for the Nodes, in GetBMHToNodeMap, and
\* returns when it fails; the loopback adaptor reads its resources and
\* returns.
GetResourcesCall ==
    /\ inventory = NoInventory
    /\ \/ \E nodesErr \in FailureCauses \cup {"nil"} :
          \E nodes \in IF nodesErr = "nil" THEN SUBSET (1..Len(hosts)) ELSE {{}} :
             LET r == GetResourcesMetal3(hosts, nodes, nodesErr, "nil")
             IN inventory' =
                   IF nodesErr # "nil"
                   THEN [adaptor |-> "metal3", fn |-> "GetResources",
                         records |-> r.resp, status |-> r.status, err |-> r.err,
                         cause |-> nodesErr, pc |-> "done", nodes |-> {}]
                   ELSE [NoInventory EXCEPT !.adaptor = "metal3", !.fn = "GetResources",
                                            !.pc = "list", !.nodes = nodes]
       \/ \E err \in FailureCauses \cup {"nil"} :
          \E resources \in IF err = "nil" THEN LoopbackResources
                                          ELSE {[pools |-> <<>>, nodes |-> <<>>]} :
          \E order \in MapOrders(resources.nodes) :
             LET r == GetResourcesLoopback(resources, order, err)
             IN inventory' = [adaptor |-> "loopback", fn |-> "GetResources",
                              records |-> r.resp, status |-> r.status, err |-> r.err,
                              cause |-> err, pc |-> "done", nodes |-> {}]
    /\ UNCHANGED <<createVars, fsmVars, retryVars, nodeVars, delVars, aggVars, ledgerVars, hosts>>

\* GetResources of the metal3 adaptor makes its second request, the list of
\* the BareMetalHosts, goes over the hosts and returns.
GetResourcesList ==
    /\ inventory.pc = "list"
    /\ \E listErr \in FailureCauses \cup {"nil"} :
          LET r == GetResourcesMetal3(hosts, inventory.nodes, "nil", listErr)
          IN inventory' = [inventory EXCEPT !.records = r.resp, !.status = r.status,
                                            !.err = r.err, !.cause = listErr,
                                            !.pc = "done"]
    /\ UNCHANGED <<createVars, fsmVars, retryVars, nodeVars, delVars, aggVars, ledgerVars, hosts>>

\* Between the two requests another client, a reconcile pass that allocates
\* a Node, provisions a host.
HostProvisioned ==
    /\ inventory.pc = "list"
    /\ \E i \in DOMAIN hosts :
          /\ hosts[i].state # StateProvisioned
          /\ hosts' = [hosts EXCEPT ![i].state = StateProvisioned]
    /\ UNCHANGED <<createVars, fsmVars, retryVars, nodeVars, delVars, aggVars, ledgerVars,
                   inventory>>

InitInventory ==
    /\ FsmIdle
    /\ RetryIdle
    /\ NodeIdle
    /\ DeletionIdle
    /\ AggIdle
    /\ LedgerIdle
    /\ CreateIdle
    /\ hosts \in HostLists(MaxHosts)
    /\ inventory = NoInventory

NextInventory ==
    \/ GetResourcePoolsCall
    \/ GetResourcesCall
    \/ GetResourcesList
    \/ HostProvisioned

SpecInventory == InitInventory /\ [][NextInventory]_vars

(***************************************************************************)
(* Specification of one retried mutation, made by a pass on its in-memory  *)
(* NodePool while other writers change the stored NodePool.                *)
(***************************************************************************)
\* The NodePools a pass can find in the store: just created, or left by an
\* earlier pass with Provisioned in progress and the finalizer added.
InitialNodePools ==
    {[CreatedNodePool EXCEPT !.conditions = conds, !.finalizers = fins] :
        conds \in {<<>>, <<Condition(Provisioned, ConditionFalse, InProgress, InProgress, 0)>>},
        fins \in {<<>>, <<NodepoolFinalizer>>}}

InitRetry ==
    /\ FsmIdle
    /\ NodeIdle
    /\ DeletionIdle
    /\ AggIdle
    /\ LedgerIdle
    /\ CreateIdle
    /\ InventoryIdle
    /\ store \in InitialNodePools
    /\ caller = store
    /\ call = IdleCall

NextRetry ==
    \/ FetchNodePool
    \/ CallStart
    \/ ClosureGetStep
    \/ ClosureGetFails
    \/ ClosureUpdateStep
    \/ ExtSpecChange
    \/ ExtSetCondition

SpecRetry == InitRetry /\ [][NextRetry]_vars

(***************************************************************************)
(* The finalizer mutations on their own: calls of NodepoolAddFinalizer and *)
(* NodepoolRemoveFinalizer that follow one another, while another          *)
(* controller adds and removes its own finalizer and the spec is changed.  *)
(***************************************************************************)
FinalizerOps == {"NodepoolAddFinalizer", "NodepoolRemoveFinalizer"}

\* The finalizer lists a stored NodePool starts with: each finalizer at
\* most once, in either order.
InitialFinalizers ==
    {<<>>, <<NodepoolFinalizer>>, <<OtherFinalizer>>,
     <<OtherFinalizer, NodepoolFinalizer>>, <<NodepoolFinalizer, OtherFinalizer>>}

\* The pass calls NodepoolAddFinalizer or NodepoolRemoveFinalizer.
FinalizerCallStart ==
    /\ call.pc = "idle"
    /\ \E op \in FinalizerOps :
          call' = [IdleCall EXCEPT !.op = op, !.pc = "get", !.steps = DefaultRetrySteps]
    /\ UNCHANGED <<createVars, invVars, fsmVars, delVars, aggVars, ledgerVars, nodeVars,
                   store, caller>>

\* The mutation has returned and the pass goes on.
FinalizerCallReturns ==
    /\ call.pc = "done"
    /\ call' = IdleCall
    /\ UNCHANGED <<createVars, invVars, fsmVars, delVars, aggVars, ledgerVars, nodeVars,
                   store, caller>>

\* Another controller adds or removes its own finalizer.
ExtFinalizerWrite ==
    /\ store.rv < MaxRv
    /\ store' = [store EXCEPT
                    !.finalizers = IF ContainsFinalizer(@, OtherFinalizer)
                                   THEN RemoveFinalizer(@, OtherFinalizer)
                                   ELSE AddFinalizer(@, OtherFinalizer),
                    !.rv = @ + 1]
    /\ UNCHANGED <<createVars, invVars, fsmVars, delVars, aggVars, ledgerVars, nodeVars,
                   caller, call>>

InitFinalizer ==
    /\ FsmIdle
    /\ NodeIdle
    /\ DeletionIdle
    /\ AggIdle
    /\ LedgerIdle
    /\ CreateIdle
    /\ InventoryIdle
    /\ store \in {[CreatedNodePool EXCEPT !.finalizers = fins] : fins \in InitialFinalizers}
    /\ caller = store
    /\ call = IdleCall

NextFinalizer ==
    \/ FinalizerCallStart
    \/ ClosureGetStep
    \/ ClosureGetFails
    \/ ClosureUpdateStep
    \/ FinalizerCallReturns
    \/ ExtFinalizerWrite
    \/ ExtSpecChange

SpecFinalizer == InitFinalizer /\ [][NextFinalizer]_vars

(***************************************************************************)
(* The deletion path: a NodePool with a deletion timestamp and the         *)
(* finalizer is handed to the active adaptor's HandleNodePoolDeletion, and *)
(* the finalizer is removed once that reports the NodePool finalized.      *)
(***************************************************************************)
\* ReleaseNodePool on a NodePool whose Nodes in alloc still hold hardware,
\* when the backend releases those in done: the others stay allocated and
\* the call fails; a Node released before is not in alloc and is not
\* released again.
ReleaseNodePool(alloc, done) ==
    [allocated |-> alloc \ done,
     err |-> IF alloc \ done = {} THEN "nil" ELSE "ReleaseFailed"]

\* Mutant: the metal3 adaptor reports the NodePool finalized whatever release returned.
HandleNodePoolDeletionMetal3AlwaysFinalized(releaseErr) ==
    [finalized |-> TRUE, err |-> NilError]

\* metal3 HandleNodePoolDeletion, given what a.ReleaseNodePool returned.
HandleNodePoolDeletionMetal3(releaseErr) ==
    IF releaseErr # "nil"
    THEN [finalized |-> FALSE,
          err |-> [message |-> "failed to release nodepool name", wraps |-> releaseErr]]
    ELSE [finalized |-> TRUE, err |-> NilError]

\* Mutant: the loopback adaptor drops the error of a failed release.
HandleNodePoolDeletionLoopbackDropsError(releaseErr) ==
    NilError

\* loopback HandleNodePoolDeletion, given what a.ReleaseNodePool returned:
\* it returns an error and nothing else.
HandleNodePoolDeletionLoopback(releaseErr) ==
    IF releaseErr # "nil"
    THEN [message |-> "failed to release nodepool name", wraps |-> releaseErr]
    ELSE NilError

\* What the caller of the active adaptor's HandleNodePoolDeletion gets: the
\* error, and whether the NodePool is finalized (for the loopback adaptor,
\* which returns no such flag, a nil error).
HandleNodePoolDeletion(a, releaseErr) ==
    IF a = "metal3"
    THEN HandleNodePoolDeletionMetal3(releaseErr)
    ELSE LET err == HandleNodePoolDeletionLoopback(releaseErr)
         IN [finalized |-> err = NilError, err |-> err]

\* The user deletes the NodePool: the API server sets the deletion timestamp.
DeleteNodePool ==
    /\ ~deletion.deleted
    /\ deletion' = [deletion EXCEPT !.deleted = TRUE]
    /\ UNCHANGED <<createVars, invVars, fsmVars, retryVars, nodeVars, aggVars, ledgerVars, allocated, releases>>

\* A deletion pass: the controller reads the NodePool, finds the deletion
\* timestamp and the finalizer, and calls HandleNodePoolDeletion, which calls
\* ReleaseNodePool once, whatever an earlier pass has released; a pass
\* whose HandleNodePoolDeletion returns an error ends there.
HandleDeletion ==
    /\ deletion.deleted
    /\ ~deletion.gone
    /\ deletion.pc = "idle"
    /\ ContainsFinalizer(store.finalizers, NodepoolFinalizer)
    /\ \E done \in SUBSET allocated :
          LET rel == ReleaseNodePool(allocated, done)
              r == HandleNodePoolDeletion(adaptor, rel.err)
              ok == r.finalized /\ r.err = NilError
          IN /\ allocated' = rel.allocated
             /\ releases' = [n \in Nodes |-> IF n \in done THEN releases[n] + 1 ELSE releases[n]]
             /\ deletion' = [deletion EXCEPT !.finalized = r.finalized, !.err = r.err,
                                             !.released = rel.err = "nil",
                                             !.pc = IF ok THEN "finalize" ELSE "idle",
                                             !.calls = IF @ < MaxPasses THEN @ + 1 ELSE @,
                                             !.failures = IF ~ok /\ @ < MaxPasses
                                                          THEN @ + 1 ELSE @]
    /\ caller' = store
    /\ UNCHANGED <<createVars, invVars, fsmVars, nodeVars, aggVars, ledgerVars, store, call>>

\* The NodePool is finalized: the controller calls NodepoolRemoveFinalizer.
RemoveFinalizerStart ==
    /\ deletion.pc = "finalize"
    /\ call' = [IdleCall EXCEPT !.op = "NodepoolRemoveFinalizer", !.pc = "get",
                                !.steps = DefaultRetrySteps]
    /\ deletion' = [deletion EXCEPT !.pc = "removing"]
    /\ UNCHANGED <<createVars, invVars, fsmVars, nodeVars, aggVars, ledgerVars, store, caller, allocated, releases>>

\* NodepoolRemoveFinalizer has returned: the pass ends, with its error if any.
DeletionPassEnd ==
    /\ deletion.pc = "removing"
    /\ call.pc = "done"
    /\ deletion' = [deletion EXCEPT !.pc = "idle", !.err = call.ret,
                                    !.failures = IF call.ret # NilError /\ @ < MaxPasses
                                                 THEN @ + 1 ELSE @]
    /\ call' = IdleCall
    /\ UNCHANGED <<createVars, invVars, fsmVars, nodeVars, aggVars, ledgerVars, store, caller, allocated, releases>>

\* The controller crashes after HandleNodePoolDeletion returned and before
\* NodepoolRemoveFinalizer has written: the pass is lost.
ControllerCrash ==
    /\ deletion.pc \in {"finalize", "removing"}
    /\ call.pc # "done"
    /\ deletion.crashes < MaxCrashes
    /\ deletion' = [deletion EXCEPT !.pc = "idle", !.finalized = FALSE, !.err = NilError,
                                    !.crashes = @ + 1]
    /\ call' = IdleCall
    /\ UNCHANGED <<createVars, invVars, fsmVars, nodeVars, aggVars, ledgerVars, store, caller, allocated, releases>>

\* The API server removes a NodePool that has a deletion timestamp and no finalizer.
GarbageCollect ==
    /\ deletion.deleted
    /\ ~deletion.gone
    /\ store.finalizers = <<>>
    /\ deletion' = [deletion EXCEPT !.gone = TRUE]
    /\ UNCHANGED <<createVars, invVars, fsmVars, retryVars, nodeVars, aggVars, ledgerVars, allocated, releases>>

\* Another writer changes the status of the NodePool while it is being deleted.
ExtWriteDuringDeletion ==
    /\ ~deletion.gone
    /\ store.rv + 1 < MaxRv
    /\ ExtSetCondition

\* The closure of NodepoolRemoveFinalizer fetches the NodePool.
RemoveFinalizerGet ==
    /\ deletion.pc = "removing"
    /\ ClosureGetStep

\* The closure's fetch fails and the closure returns the error: the wrapper
\* runs it again while it has steps left and returns the error otherwise.
RemoveFinalizerGetFails ==
    /\ deletion.pc = "removing"
    /\ ClosureGetFails

\* The closure removes the finalizer from the fetched object and writes it.
RemoveFinalizerWrite ==
    /\ deletion.pc = "removing"
    /\ ClosureUpdateStep

\* A NodePool that carries the finalizer and has been allocated some Nodes,
\* reconciled by either adaptor.
InitDeletion ==
    /\ adaptor \in Adaptors
    /\ nodepool = [generation |-> 1, observedGeneration |-> 0, conditions |-> <<>>]
    /\ clock = 1
    /\ lastAction = "none"
    /\ lastHandler = "none"
    /\ lastResult = NoResult
    /\ reconciles = 0
    /\ NodeIdle
    /\ AggIdle
    /\ LedgerIdle
    /\ CreateIdle
    /\ InventoryIdle
    /\ store = [CreatedNodePool EXCEPT !.finalizers = <<NodepoolFinalizer>>]
    /\ caller = store
    /\ call = IdleCall
    /\ allocated \in SUBSET Nodes
    /\ releases = [n \in Nodes |-> 0]
    /\ deletion = [IdleDeletion EXCEPT !.nodes = allocated]

NextDeletion ==
    \/ DeleteNodePool
    \/ HandleDeletion
    \/ RemoveFinalizerStart
    \/ RemoveFinalizerGet
    \/ RemoveFinalizerGetFails
    \/ RemoveFinalizerWrite
    \/ DeletionPassEnd
    \/ ControllerCrash
    \/ GarbageCollect
    \/ ExtWriteDuringDeletion

SpecDeletion == InitDeletion /\ [][NextDeletion]_vars

\* A NodePool that carries the finalizer and has no Node or all of them.
InitFairDeletion ==
    /\ InitDeletion
    /\ allocated \in {{}, Nodes}

\* The controller keeps running: a NodePool that awaits finalization is
\* reconciled again, and a started call goes on, each of its requests
\* returning with an answer or with an error.  Nothing is assumed of the
\* answers: every fetch may fail.
FairSpecDeletion ==
    /\ InitFairDeletion
    /\ [][NextDeletion]_vars
    /\ WF_vars(HandleDeletion)
    /\ WF_vars(RemoveFinalizerStart)
    /\ WF_vars(RemoveFinalizerGet \/ RemoveFinalizerGetFails)
    /\ WF_vars(RemoveFinalizerWrite)
    /\ WF_vars(DeletionPassEnd)

(***************************************************************************)
(* The aggregation of the child Nodes' Configured conditions into the      *)
(* NodePool's Configured condition.                                        *)
(***************************************************************************)
ConfigApplied == "ConfigApplied"
ConfigSuccess == "ConfigSuccess"

\* What GetNode returns for a child Node: an error, or the Node's conditions.
ChildNode(err, conds) == [err |-> err, conditions |-> conds]

\* The states a child Node can be found in: unreadable; without a Configured
\* condition (with or without another condition); or with one.
ChildStates ==
    {ChildNode("NotFound", <<>>), ChildNode("nil", <<>>),
     ChildNode("nil", <<Condition(Provisioned, ConditionTrue, Completed, "Provisioned", 0)>>)}
    \cup {ChildNode("nil", <<Condition(Provisioned, ConditionTrue, Completed, "Provisioned", 0),
                             Condition(Configured, st, r, r, 0)>>) :
            st \in {ConditionTrue, ConditionFalse}, r \in {ConfigApplied, InProgress, Failed}}

\* The loop of DeriveNodePoolStatusFromNodes from item i of the list on;
\* fetched counts the GetNode calls made.
RECURSIVE DeriveFrom(_, _)
DeriveFrom(nodelist, i) ==
    IF i > Len(nodelist)
    THEN [status |-> ConditionTrue, reason |-> ConfigApplied,
          message |-> [format |-> "%s", node |-> 0, text |-> ConfigSuccess],
          fetched |-> Len(nodelist)]
    ELSE LET updatedNode == nodelist[i]
             cond == FindStatusCondition(updatedNode.conditions, Configured)
         IN IF updatedNode.err # "nil"
            THEN [status |-> ConditionFalse, reason |-> InProgress,
                  message |-> [format |-> "Node %s could not be read: %v", node |-> i,
                               text |-> updatedNode.err],
                  fetched |-> i]
            ELSE IF cond = NilCondition
            THEN [status |-> ConditionFalse, reason |-> InProgress,
                  message |-> [format |-> "Node %s missing Configured condition", node |-> i,
                               text |-> ""],
                  fetched |-> i]
            ELSE IF cond.reason # ConfigApplied
            THEN [status |-> cond.status, reason |-> cond.reason,
                  message |-> [format |-> "Node %s: %s", node |-> i, text |-> cond.message],
                  fetched |-> i]
            ELSE DeriveFrom(nodelist, i + 1)

\* Mutant: a Node without a Configured condition counts as applied.
DeriveNodePoolStatusFromNodesSkipsMissing(nodelist) ==
    DeriveFrom(SelectSeq(nodelist,
                         LAMBDA n : n.err # "nil"
                                    \/ FindStatusCondition(n.conditions, Configured)
                                          # NilCondition), 1)

\* Mutant: the list is scanned from its last item to its first.
DeriveNodePoolStatusFromNodesBackwards(nodelist) ==
    DeriveFrom([i \in 1..Len(nodelist) |-> nodelist[Len(nodelist) + 1 - i]], 1)

\* Mutant: a Node that cannot be read is skipped.
DeriveNodePoolStatusFromNodesSkipsUnread(nodelist) ==
    DeriveFrom(SelectSeq(nodelist, LAMBDA n : n.err = "nil"), 1)

DeriveNodePoolStatusFromNodes(nodelist) ==
    DeriveFrom(nodelist, 1)

\* The call has returned once the loop has gone over seen, what GetNode
\* returned for the first items of a list of n: it returned at an item, or
\* there is no item left.
Returned(seen, n) ==
    DeriveNodePoolStatusFromNodes(seen).message.node # 0 \/ Len(seen) = n

\* What the call holds after the loop has gone over seen.
DerivedAfter(seen, n) ==
    IF Returned(seen, n)
    THEN [status |-> DeriveNodePoolStatusFromNodes(seen).status,
          reason |-> DeriveNodePoolStatusFromNodes(seen).reason,
          message |-> DeriveNodePoolStatusFromNodes(seen).message,
          fetched |-> DeriveNodePoolStatusFromNodes(seen).fetched,
          pc |-> "done", seen |-> seen]
    ELSE [NoDerived EXCEPT !.pc = "reading", !.seen = seen]

\* A pass calls DeriveNodePoolStatusFromNodes with the list of its child
\* Nodes; on an empty list the call returns at once.
DeriveStart ==
    /\ derived.pc = "idle"
    /\ derived' = DerivedAfter(<<>>, Len(children))
    /\ UNCHANGED <<createVars, invVars, fsmVars, retryVars, nodeVars, delVars, ledgerVars, children>>

\* The loop fetches the next Node of the list with GetNode and looks at its
\* Configured condition.
DeriveRead ==
    /\ derived.pc = "reading"
    /\ derived' = DerivedAfter(Append(derived.seen, children[Len(derived.seen) + 1]),
                               Len(children))
    /\ UNCHANGED <<createVars, invVars, fsmVars, retryVars, nodeVars, delVars, ledgerVars, children>>

\* A child Node changes, or becomes readable or unreadable, while the call
\* is going over the list.
ChildChanges ==
    /\ derived.pc = "reading"
    /\ \E i \in 1..Len(children) : \E c \in ChildStates :
          /\ c # children[i]
          /\ children' = [children EXCEPT ![i] = c]
    /\ UNCHANGED <<createVars, invVars, fsmVars, retryVars, nodeVars, delVars, ledgerVars, derived>>

InitAgg ==
    /\ FsmIdle
    /\ RetryIdle
    /\ NodeIdle
    /\ DeletionIdle
    /\ LedgerIdle
    /\ CreateIdle
    /\ InventoryIdle
    /\ children \in UNION {[1..n -> ChildStates] : n \in 0..MaxChildren}
    /\ derived = NoDerived

NextAgg == DeriveStart \/ DeriveRead \/ ChildChanges

SpecAgg == InitAgg /\ [][NextAgg]_vars

(***************************************************************************)
(* A condition list under a sequence of SetStatusCondition calls, each     *)
(* made at a later time than the one before.                               *)
(***************************************************************************)
\* The arguments of a call: (conditionType, conditionReason, conditionStatus, message).
LedgerArgs ==
    [type : ConditionTypes, reason : {InProgress, Completed},
     status : {ConditionTrue, ConditionFalse}, message : {"m1", "m2"}]

\* A caller sets a condition on its NodePool's list; order lists the Types in
\* the order of their first call, repeated tells that the call has the
\* arguments of the call before it.
SetConditionCall ==
    /\ ledger.calls < MaxCalls
    /\ clock' = clock + 1
    /\ \E a \in LedgerArgs :
          ledger' =
            [conditions |-> SetStatusCondition(ledger.conditions, a.type, a.reason, a.status,
                                               a.message, clock'),
             order |-> IF \E i \in 1..Len(ledger.order) : ledger.order[i] = a.type
                       THEN ledger.order ELSE Append(ledger.order, a.type),
             calls |-> ledger.calls + 1,
             args |-> a,
             repeated |-> ledger.calls > 0 /\ a = ledger.args]
    /\ UNCHANGED <<createVars, invVars, adaptor, nodepool, lastAction, lastHandler, lastResult, reconciles,
                   retryVars, nodeVars, delVars, aggVars>>

InitLedger ==
    /\ FsmIdle
    /\ RetryIdle
    /\ NodeIdle
    /\ DeletionIdle
    /\ AggIdle
    /\ LedgerIdle
    /\ CreateIdle
    /\ InventoryIdle

NextLedger == SetConditionCall

SpecLedger == InitLedger /\ [][NextLedger]_vars

(***************************************************************************)
(* Specification of the classifier and dispatcher: one NodePool, drawn     *)
(* from the bounded set of NodePools, reconciled repeatedly by one adaptor *)
(* while an external writer changes its spec.                              *)
(***************************************************************************)
ConditionValues(t) ==
    {Condition(t, s, r, r, 0) : s \in ConditionStatuses, r \in ConditionReasons}

\* Condition lists of at most MaxConds entries, one entry per Type.
ConditionLists ==
    {l \in UNION {[1..n -> UNION {ConditionValues(t) : t \in ConditionTypes}] : n \in 0..MaxConds} :
        \A i, j \in 1..Len(l) : i # j => l[i].type # l[j].type}

NodePools ==
    {[generation |-> g, observedGeneration |-> o, conditions |-> l] :
        g \in 1..MaxGen, o \in 0..MaxGen, l \in ConditionLists}

Init ==
    /\ adaptor \in Adaptors
    /\ nodepool \in {np \in NodePools : np.observedGeneration <= np.generation}
    /\ clock = 1
    /\ lastAction = "none"
    /\ lastHandler = "none"
    /\ lastResult = NoResult
    /\ reconciles = 0
    /\ RetryIdle
    /\ NodeIdle
    /\ DeletionIdle
    /\ AggIdle
    /\ LedgerIdle
    /\ CreateIdle
    /\ InventoryIdle

\* One reconciliation pass: the dispatch framework hands the NodePool to the
\* active adaptor's HandleNodePool.
Reconcile ==
    /\ reconciles < MaxReconciles
    /\ \E outcome \in Outcomes :
          LET r == HandleNodePool(adaptor, nodepool, outcome, clock)
          IN /\ nodepool' = r.nodepool
             /\ lastAction' = r.action
             /\ lastHandler' = r.handler
             /\ lastResult' = r.result
    /\ reconciles' = reconciles + 1
    /\ UNCHANGED <<createVars, invVars, adaptor, clock, retryVars, nodeVars, delVars, aggVars, ledgerVars>>

\* An external writer changes the spec: the API server bumps metadata.generation.
SpecChange ==
    /\ nodepool.generation < MaxGen
    /\ nodepool' = [nodepool EXCEPT !.generation = @ + 1]
    /\ UNCHANGED <<createVars, invVars, adaptor, clock, lastAction, lastHandler, lastResult, reconciles,
                   retryVars, nodeVars, delVars, aggVars, ledgerVars>>

Next == Reconcile \/ SpecChange

Spec == Init /\ [][Next]_vars

(***************************************************************************)
(* Properties of the Node operations.                                      *)
(***************************************************************************)
NodeCompleted(node) ==
    LET p == FindStatusCondition(node.conditions, Provisioned)
    IN p.status = ConditionTrue /\ p.reason = Completed

\* C8: once the stored Node's Provisioned condition is True/Completed, no
\* operation (UpdateNodeStatus, ApplyPostConfigUpdates, SetNodeFailedStatus)
\* moves it to another value.
C8_ProvisionedNeverRegresses ==
    [][NodeCompleted(nodeStore) => NodeCompleted(nodeStore')]_vars

\* The Node object the running operation is about to write, and the step
\* that writes it.
WrittenNode == IF nodeCall.pc = "failstatus" THEN nodeMem ELSE nodeCall.new
NodeWriteStep == nodeCall.pc \in {"update", "status", "failstatus"} /\ nodeCall' # nodeCall

\* C12: in every Node operation of the metal3 adaptor (UpdateNodeStatus,
\* ApplyPostConfigUpdates, SetNodeFailedStatus) a write of a copy that
\* another writer has overtaken is followed by a re-fetch of the Node, and
\* the operation ends with the conflict only when the retry policy has no
\* step left.
C12_ConflictLeadsToRefetch ==
    [][(NodeWriteStep /\ WrittenNode.rv # nodeStore.rv)
        => \/ nodeCall'.pc = "get"
           \/ nodeCall'.pc = "done" /\ nodeCall.steps = 1]_vars

\* C35: ApplyPostConfigUpdates works in order.  It clears the host's network
\* data before it fetches or writes the Node, and a failure to clear ends
\* the operation with the Node as it was.  The update that removes the
\* config annotation leaves the conditions alone.  The status write that
\* follows is of an object without the annotation, and when it is accepted,
\* also in a re-run after a conflict, the stored Node is Provisioned
\* True/Completed and has no config annotation.
C35_PostConfigStepsInOrder ==
    [][(nodeCall.op = "ApplyPostConfigUpdates" /\ nodeCall' # nodeCall
        /\ nodeCall.pc \notin {"idle", "done"})
        => /\ nodeCall.pc = "clear"
                => /\ nodeStore' = nodeStore
                   /\ \/ nodeCall'.pc = "get" /\ nodeCall'.cleared
                      \/ nodeCall'.pc = "done" /\ nodeCall'.err # "nil" /\ ~nodeCall'.cleared
           /\ nodeCall.pc # "clear" => nodeCall.cleared
           /\ nodeCall.pc = "get" => nodeStore' = nodeStore
           /\ nodeCall.pc = "update"
                => /\ nodeStore'.conditions = nodeStore.conditions
                   /\ nodeCall'.pc = "status"
                        => ~nodeStore'.annotated /\ ~nodeCall'.new.annotated
           /\ nodeCall.pc = "status"
                => /\ ~nodeCall.new.annotated
                   /\ nodeStore' # nodeStore
                        => ~nodeStore'.annotated /\ NodeCompleted(nodeStore')
                   /\ (nodeCall'.pc = "done" /\ nodeCall'.err = "nil")
                        => ~nodeStore'.annotated /\ NodeCompleted(nodeStore')]_vars

\* ApplyPostConfigUpdates has succeeded in a re-run after a conflict on a
\* Node that carried the config annotation when the caller read it.
C35_Witness ==
    /\ nodeCall.op = "ApplyPostConfigUpdates"
    /\ nodeCall.pc = "done"
    /\ nodeCall.err = "nil"
    /\ nodeCall.cleared
    /\ nodeCall.steps < DefaultRetrySteps
    /\ nodeMem.annotated
    /\ ~nodeStore.annotated
    /\ NodeCompleted(nodeStore)

\* C32: a stored Node whose Provisioned condition is True/Completed has
\* BMC information in its status.
C32_CompletedHasBMC ==
    NodeCompleted(nodeStore) => nodeStore.bmc # "nil"

(***************************************************************************)
(* Properties of the retried mutations.                                    *)
(***************************************************************************)
\* C7: the stored ObservedGeneration equals the stored Generation only if
\* the spec of that generation has been reconciled: when another writer
\* changes the spec while a pass is in flight, UpdateNodePoolPluginStatus
\* does not record the new generation, which the pass has never read.
C7_ObservedGenerationIsReconciled ==
    store.observedGeneration = store.generation
    => caller.generation = store.generation

\* C9: in UpdateNodePoolStatusCondition a write based on a copy that another
\* writer has overtaken is rejected as a conflict, leaves the store as it
\* is and is followed by a re-run of the closure; the write that succeeds
\* changes the stored object by the new condition alone, so every other
\* writer's change is still there.
C9_NoLostUpdate ==
    [][(call.op = "UpdateNodePoolStatusCondition" /\ call.pc = "update" /\ call' # call)
        => /\ call.new.rv # store.rv
                => /\ store' = store
                   /\ \/ call'.pc = "get"
                      \/ call'.pc = "done" /\ call'.err = "Conflict"
           /\ (call'.pc = "done" /\ call'.err = "nil")
                => /\ store'.conditions =
                        SetStatusCondition(store.conditions, Provisioned, call.args.reason,
                                           call.args.status, call.args.reason, clock)
                   /\ [store' EXCEPT !.rv = 0, !.conditions = <<>>]
                        = [store EXCEPT !.rv = 0, !.conditions = <<>>]]_vars

\* The mutation succeeded after a conflict; the store holds the condition of
\* the other writer, which the pass never saw, and the new one.
C9_Witness ==
    /\ call.op = "UpdateNodePoolStatusCondition"
    /\ call.pc = "done"
    /\ call.err = "nil"
    /\ call.conflicts >= 1
    /\ FindStatusCondition(caller.conditions, Configured) = NilCondition
    /\ FindStatusCondition(store.conditions, Configured) # NilCondition
    /\ FindStatusCondition(store.conditions, Provisioned).reason = call.args.reason

\* The status fields of a NodePool that a single-field mutation may write.
FieldOps ==
    {"UpdateNodePoolProperties", "UpdateNodePoolSelectedPools",
     "UpdateNodePoolPluginStatus"}

\* C33: a write of UpdateNodePoolProperties, UpdateNodePoolSelectedPools or
\* UpdateNodePoolPluginStatus changes, besides the resourceVersion, one
\* status field of the stored NodePool only: Properties (to the caller's
\* value), SelectedPools (to the caller's value), or ObservedGeneration (to
\* the stored generation); every other field, the condition list included,
\* keeps the stored value, whatever the caller's in-memory copy holds.
C33_OneFieldWritten ==
    [][(call.op \in FieldOps /\ call.pc = "update" /\ call' # call)
        => /\ (call'.pc = "done" /\ call'.err = "nil")
                => CASE call.op = "UpdateNodePoolProperties" ->
                            store'.properties = caller.properties
                     [] call.op = "UpdateNodePoolSelectedPools" ->
                            store'.selectedPools = caller.selectedPools
                     [] call.op = "UpdateNodePoolPluginStatus" ->
                            store'.observedGeneration = store.generation
           /\ store'.conditions = store.conditions
           /\ store'.finalizers = store.finalizers
           /\ store'.generation = store.generation
           /\ call.op # "UpdateNodePoolProperties" => store'.properties = store.properties
           /\ call.op # "UpdateNodePoolSelectedPools"
                => store'.selectedPools = store.selectedPools
           /\ call.op # "UpdateNodePoolPluginStatus"
                => store'.observedGeneration = store.observedGeneration]_vars

\* UpdateNodePoolProperties has stored the caller's Properties while the
\* store holds a condition of another writer that the caller's copy lacks.
C33_Witness ==
    /\ call.op = "UpdateNodePoolProperties"
    /\ call.pc = "done"
    /\ call.err = "nil"
    /\ caller.properties = 1
    /\ store.properties = 1
    /\ FindStatusCondition(caller.conditions, Configured) = NilCondition
    /\ FindStatusCondition(store.conditions, Configured) # NilCondition
    /\ store.conditions # caller.conditions

\* C34: when UpdateNodePoolStatusCondition returns an error, the caller's
\* in-memory NodePool shows no Provisioned condition other than the one the
\* store holds.
C34_ErrorLeavesCallerAsStored ==
    (call.op = "UpdateNodePoolStatusCondition" /\ call.pc = "done" /\ call.ret # NilError)
        => FindStatusCondition(caller.conditions, Provisioned)
              = FindStatusCondition(store.conditions, Provisioned)

\* How often a finalizer list holds f.
Occurrences(fins, f) == Cardinality({i \in DOMAIN fins : fins[i] = f})

\* The finalizers of a list other than the nodepool finalizer, in order.
OtherFinalizers(fins) == SelectSeq(fins, LAMBDA x : x # NodepoolFinalizer)

\* C38: a write of NodepoolAddFinalizer or NodepoolRemoveFinalizer changes
\* nothing of the stored NodePool but its finalizer list and resource-
\* Version, and nothing of the list but the nodepool finalizer; after a
\* successful add the list holds the finalizer exactly once and after a
\* successful remove not at all; an add when it is present and a remove
\* when it is absent succeed, unless another writer came between fetch and
\* write, and leave the stored NodePool as it is.
C38_FinalizerCallsAreIdempotent ==
    [][(call.op \in FinalizerOps /\ call.pc = "update" /\ call' # call)
        => LET ok == call'.pc = "done" /\ call'.err = "nil"
               present == ContainsFinalizer(store.finalizers, NodepoolFinalizer)
           IN /\ [store' EXCEPT !.rv = 0, !.finalizers = <<>>]
                    = [store EXCEPT !.rv = 0, !.finalizers = <<>>]
              /\ OtherFinalizers(store'.finalizers) = OtherFinalizers(store.finalizers)
              /\ ~ok => store' = store
              /\ call.new.rv = store.rv => ok
              /\ (ok /\ call.op = "NodepoolAddFinalizer")
                    => /\ Occurrences(store'.finalizers, NodepoolFinalizer) = 1
                       /\ present => store' = store
              /\ (ok /\ call.op = "NodepoolRemoveFinalizer")
                    => /\ Occurrences(store'.finalizers, NodepoolFinalizer) = 0
                       /\ ~present => store' = store]_vars

\* NodepoolAddFinalizer has succeeded, after a conflict, on a NodePool that
\* held the finalizer already and to which another controller had added
\* its own in the meantime: both are there, each once.
C38_Witness ==
    /\ call.op = "NodepoolAddFinalizer"
    /\ call.pc = "done"
    /\ call.err = "nil"
    /\ call.conflicts >= 1
    /\ ContainsFinalizer(call.new.finalizers, NodepoolFinalizer)
    /\ call.new.rv = store.rv
    /\ ~ContainsFinalizer(caller.finalizers, OtherFinalizer)
    /\ store.finalizers = <<NodepoolFinalizer, OtherFinalizer>>

\* C10: every run of the closure starts with its own fetch, and a mutation
\* that succeeds after exactly N conflicts (and no other failure) has made
\* exactly N+1 fetches and N+1 writes, with N below the policy's 5 steps.
C10_CyclesAreConflictsPlusOne ==
    /\ call.pc = "update" => call.gets = call.updates + 1
    /\ (call.pc = "done" /\ call.err = "nil" /\ call.getFails = 0)
         => /\ call.gets = call.conflicts + 1
            /\ call.updates = call.conflicts + 1
            /\ call.conflicts < DefaultRetrySteps

\* NodepoolAddFinalizer succeeded on its last step, after four conflicts.
C10_Witness ==
    /\ call.op = "NodepoolAddFinalizer"
    /\ call.pc = "done"
    /\ call.err = "nil"
    /\ call.getFails = 0
    /\ call.conflicts = DefaultRetrySteps - 1
    /\ call.gets = DefaultRetrySteps
    /\ ContainsFinalizer(store.finalizers, NodepoolFinalizer)

\* C11: a retried mutation makes at most 5 attempts; a write attempt that
\* conflicts leaves the stored NodePool as it is; and a mutation whose
\* write attempts all conflicted ends after 5 of them, returning an error
\* with the mutation's message that wraps the last conflict.
C11_ExhaustedRetriesReturnLastError ==
    [][/\ call'.gets + call'.getFails <= DefaultRetrySteps
       /\ (call.pc = "update" /\ call'.conflicts = call.conflicts + 1) => store' = store
       /\ (call.pc = "update" /\ call'.pc = "done"
             /\ call'.conflicts = call'.updates /\ call'.getFails = 0)
            => /\ call'.updates = DefaultRetrySteps
               /\ call'.ret = [message |-> ErrorMessage(call.op), wraps |-> "Conflict"]]_vars

\* NodepoolRemoveFinalizer gave up after five conflicts: the finalizer is
\* still on the stored NodePool.
C11_Witness ==
    /\ call.op = "NodepoolRemoveFinalizer"
    /\ call.pc = "done"
    /\ call.conflicts = DefaultRetrySteps
    /\ call.ret.wraps = "Conflict"
    /\ ContainsFinalizer(store.finalizers, NodepoolFinalizer)

(***************************************************************************)
(* Properties of the deletion path.                                        *)
(***************************************************************************)
\* This step is a HandleNodePoolDeletion call.
HandleDeletionStep ==
    /\ deletion.deleted
    /\ deletion.pc = "idle"
    /\ ContainsFinalizer(store.finalizers, NodepoolFinalizer)
    /\ store' = store

FinalizerRemoved == ~ContainsFinalizer(store.finalizers, NodepoolFinalizer)

\* C14: a HandleNodePoolDeletion call reports the NodePool finalized, with
\* no error, exactly when its ReleaseNodePool call returned no error, and
\* reports it not finalized with an error wrapping the failure otherwise;
\* and the stored NodePool is without the finalizer only after a release
\* that succeeded, with no Node still holding hardware.
C14_FinalizerRemovedOnlyAfterRelease ==
    [][/\ HandleDeletionStep
            => /\ deletion'.released
                    => deletion'.finalized /\ deletion'.err = NilError
               /\ ~deletion'.released
                    => ~deletion'.finalized /\ deletion'.err.wraps = "ReleaseFailed"
       /\ ~ContainsFinalizer(store'.finalizers, NodepoolFinalizer)
            => deletion'.released /\ allocated' = {}]_vars

\* The finalizer has been removed from a NodePool that had Nodes allocated.
C14_Witness ==
    /\ FinalizerRemoved
    /\ deletion.released
    /\ deletion.nodes # {}
    /\ ~deletion.gone

\* The calls of the adaptor's release made for Node n: each ReleaseNodePool
\* call releases the Nodes of the NodePool, the released ones among them.
ReleaseCalls(n) == IF n \in deletion.nodes THEN deletion.calls ELSE 0

\* A pass has called release and has not ended in an error or a crash.
ReleaseStands == deletion.pc \in {"finalize", "removing"} \/ FinalizerRemoved

\* C15 as the specification states it: release is called exactly once for
\* each Node that was allocated, and the finalizer is off the stored
\* NodePool only after every Node has been released.
C15_ReleaseCalledExactlyOnce ==
    /\ \A n \in deletion.nodes : ReleaseCalls(n) <= 1
    /\ FinalizerRemoved
          => \A n \in deletion.nodes : ReleaseCalls(n) = 1 /\ releases[n] = 1

\* C15: each deletion pass calls release once, and a pass is made again
\* only after one that ended in an error or a crash, so that release has
\* been called for each Node once and once more for each such pass; and
\* the finalizer is off the stored NodePool only after a call of release
\* that reported success, with the hardware of every Node released once.
C15_ReleaseCalledOncePerPass ==
    /\ deletion.calls < MaxPasses
          => \A n \in deletion.nodes :
                ReleaseCalls(n) = deletion.failures + deletion.crashes
                                    + (IF ReleaseStands THEN 1 ELSE 0)
    /\ FinalizerRemoved
          => /\ deletion.calls >= 1
             /\ deletion.released
             /\ \A n \in deletion.nodes : ReleaseCalls(n) >= 1 /\ releases[n] = 1

\* A NodePool with all its Nodes allocated has been finalized by the second
\* pass, the first having released one Node and failed on the other.
C15_Witness ==
    /\ FinalizerRemoved
    /\ deletion.nodes = Nodes
    /\ deletion.calls = 2
    /\ deletion.failures = 1
    /\ deletion.crashes = 0
    /\ \A n \in Nodes : releases[n] = 1

Fetched(i) == derived.seen[i]

\* The fetched Nodes that are not known to have their configuration applied.
NotApplied ==
    {i \in 1..Len(derived.seen) :
        \/ Fetched(i).err # "nil"
        \/ FindStatusCondition(Fetched(i).conditions, Configured).reason # ConfigApplied}

\* C17: the result is taken from the first child Node, in list order,
\* whose Configured reason, as fetched, is not ConfigApplied: its status,
\* its reason and its message (after the Node's name) are the result, and
\* no Node after it is fetched; when there is no such Node all are fetched
\* and the result is True/ConfigApplied.
C17_FirstNotAppliedWins ==
    derived.pc = "done"
    => /\ derived.fetched = Len(derived.seen)
       /\ IF NotApplied = {}
          THEN /\ derived.fetched = Len(children)
               /\ derived.status = ConditionTrue
               /\ derived.reason = ConfigApplied
          ELSE LET k == Min(NotApplied)
                   cond == FindStatusCondition(Fetched(k).conditions, Configured)
               IN /\ derived.fetched = k
                  /\ derived.message.node = k
                  /\ (Fetched(k).err = "nil" /\ cond # NilCondition)
                       => /\ derived.status = cond.status
                          /\ derived.reason = cond.reason
                          /\ derived.message.text = cond.message

\* Of three Nodes the second was fetched Configured=False/InProgress and the
\* third cannot be read: the result is the second Node's, and the third
\* was not fetched.
C17_Witness ==
    /\ derived.pc = "done"
    /\ Len(children) = 3
    /\ 1 \notin NotApplied
    /\ FindStatusCondition(Fetched(2).conditions, Configured).status = ConditionFalse
    /\ FindStatusCondition(Fetched(2).conditions, Configured).reason = InProgress
    /\ children[3].err # "nil"
    /\ derived.reason = InProgress
    /\ derived.message = [format |-> "Node %s: %s", node |-> 2, text |-> InProgress]
    /\ derived.fetched = 2

\* C18: when the fetch of a child Node fails the result is
\* Configured=False with reason InProgress, and a call in which a fetch
\* failed never yields the success result.
C18_FetchFailureIsInProgress ==
    derived.pc = "done"
    => /\ (derived.fetched > 0 /\ Fetched(derived.fetched).err # "nil")
            => /\ derived.status = ConditionFalse
               /\ derived.reason = InProgress
       /\ (\E i \in 1..Len(derived.seen) : Fetched(i).err # "nil")
            => ~(derived.status = ConditionTrue /\ derived.reason = ConfigApplied)

\* Two Nodes were fetched with their configuration applied and the third,
\* which became unreadable during the call, could not be read.
C18_Witness ==
    /\ derived.pc = "done"
    /\ Len(children) = 3
    /\ NotApplied = {3}
    /\ Fetched(3).err # "nil"
    /\ derived.fetched = 3
    /\ derived.status = ConditionFalse
    /\ derived.reason = InProgress

\* Every child Node of the list was fetched, was read and had a Configured
\* condition whose reason is ConfigApplied.
AllApplied ==
    /\ Len(derived.seen) = Len(children)
    /\ \A i \in 1..Len(derived.seen) :
          /\ Fetched(i).err = "nil"
          /\ FindStatusCondition(Fetched(i).conditions, Configured) # NilCondition
          /\ FindStatusCondition(Fetched(i).conditions, Configured).reason = ConfigApplied

\* C36: the result is True/ConfigApplied exactly when every Node of the
\* list was fetched successfully and had, as fetched, a Configured condition
\* with reason ConfigApplied, an empty list included; and when the Node the
\* scan stops at was read and has no Configured condition the result is
\* False/InProgress.
C36_SuccessIffAllApplied ==
    derived.pc = "done"
    => /\ (derived.status = ConditionTrue /\ derived.reason = ConfigApplied) <=> AllApplied
       /\ (/\ derived.fetched > 0
           /\ ~AllApplied
           /\ Fetched(derived.fetched).err = "nil"
           /\ FindStatusCondition(Fetched(derived.fetched).conditions, Configured)
                 = NilCondition)
            => /\ derived.status = ConditionFalse
               /\ derived.reason = InProgress

\* Of three Nodes the first two were fetched with their configuration
\* applied and the third, which was read, had only a Provisioned condition.
C36_Witness ==
    /\ derived.pc = "done"
    /\ Len(children) = 3
    /\ NotApplied = {3}
    /\ Fetched(3).err = "nil"
    /\ Fetched(3).conditions # <<>>
    /\ FindStatusCondition(Fetched(3).conditions, Configured) = NilCondition
    /\ derived.fetched = 3
    /\ derived.status = ConditionFalse
    /\ derived.reason = InProgress
    /\ derived.message.format = "Node %s missing Configured condition"

\* C37: a result with status True has the reason ConfigApplied.
C37_TrueMeansConfigApplied ==
    derived.pc = "done"
    => (derived.status = ConditionTrue => derived.reason = ConfigApplied)

(***************************************************************************)
(* Properties of the condition list.                                       *)
(***************************************************************************)
\* This step is a SetStatusCondition call on the list.
LedgerStep == ledger'.calls = ledger.calls + 1

\* The Types of a condition list, in list order.
TypesOf(conditions) == [i \in 1..Len(conditions) |-> conditions[i].type]

\* C19: a call with the Type, Reason, Status and Message of the call before
\* it, made at a later time, leaves the list as that call left it, the
\* LastTransitionTime of every entry included.
C19_RepeatedCallChangesNothing ==
    [][(LedgerStep /\ ledger'.repeated) => ledger'.conditions = ledger.conditions]_vars

\* A call was repeated on a list of two entries, and the entry it names
\* still has the transition time of the earlier call.
C19_Witness ==
    /\ ledger.repeated
    /\ Len(ledger.conditions) = 2
    /\ ledger.conditions[1].type = ledger.args.type
    /\ ledger.conditions[1].ltt < clock

\* C20: the list holds one entry per Type, in the order in which the Types
\* were first set; a call for a Type the list lacks appends one entry of
\* that Type and leaves the others as they are, and a call for a Type
\* the list holds changes the entry of that Type alone, where it is.
C20_OneEntryPerTypeInInsertionOrder ==
    [][LedgerStep
        => LET old == ledger.conditions
               new == ledger'.conditions
               t == ledger'.args.type
           IN /\ TypesOf(new) = ledger'.order
              /\ \A i, j \in 1..Len(new) : new[i].type = new[j].type => i = j
              /\ IF \E i \in 1..Len(old) : old[i].type = t
                 THEN /\ Len(new) = Len(old)
                      /\ \A i \in 1..Len(old) :
                            IF old[i].type = t THEN new[i].type = t ELSE new[i] = old[i]
                 ELSE /\ Len(new) = Len(old) + 1
                      /\ new[Len(new)].type = t
                      /\ SubSeq(new, 1, Len(old)) = old]_vars

\* Three Types were set, and then the first one again with another Status:
\* its entry, changed at that time, is still the first.
C20_Witness ==
    /\ Len(ledger.conditions) = 3
    /\ ledger.calls > 3
    /\ ledger.args.type = ledger.conditions[1].type
    /\ ledger.conditions[1].ltt = clock
    /\ ledger.conditions[1].status = ledger.args.status

\* C21: a call for a Type the list holds gives the entry the call's Status,
\* Reason and Message; the entry's LastTransitionTime becomes the time of
\* the call if the Status or the Reason differs from the stored one, and
\* keeps its value otherwise.
C21_TransitionTimeFollowsStatusOrReason ==
    [][LedgerStep
        => LET old == FindStatusCondition(ledger.conditions, ledger'.args.type)
               new == FindStatusCondition(ledger'.conditions, ledger'.args.type)
               a == ledger'.args
           IN old # NilCondition
                => /\ new.status = a.status
                   /\ new.reason = a.reason
                   /\ new.message = a.message
                   /\ old.ltt < clock'
                   /\ IF old.status # a.status \/ old.reason # a.reason
                      THEN new.ltt = clock'
                      ELSE new.ltt = old.ltt]_vars

\* Two calls were made for one Type with the same Status and Reason and
\* different Messages: the entry has the second Message and the first time.
C21_Witness ==
    /\ ledger.calls = 2
    /\ Len(ledger.conditions) = 1
    /\ ~ledger.repeated
    /\ ledger.conditions[1].message = ledger.args.message
    /\ ledger.conditions[1].ltt < clock

(***************************************************************************)
(* Properties of the creation of Node objects.                             *)
(***************************************************************************)
\* The step in which a call of CreateNode or AllocateNode is made.
CallEnters == creation'.calls = creation.calls + 1

\* A step of the call.
CallStep == creation'.calls # creation.calls \/ creation'.pc # creation.pc

\* The step in which the call returns.
CallReturns == CallStep /\ creation'.pc = "idle"

\* The Nodes a step adds to the store.
CreatedNodes == DOMAIN nodeObjs' \ DOMAIN nodeObjs

\* C22: every Node a call of an adaptor creates carries exactly one owner
\* reference, and it holds the name and the UID of the NodePool the call was
\* made for; no stored Node, whoever created it, is without an owner or has
\* a second one.
C22_CreatedNodeHasOneOwner ==
    [][/\ \A n \in CreatedNodes :
             \/ n \in creation'.foreign \ creation.foreign
             \/ /\ CallStep
                /\ n = creation'.nodename
                /\ nodeObjs'[n].owners = <<[name |-> creation'.nodepool.name,
                                            uid |-> creation'.nodepool.uid]>>
       /\ \A n \in DOMAIN nodeObjs' : Len(nodeObjs'[n].owners) = 1]_vars

\* Two Nodes, created by calls of the adaptor, are stored whose owners have
\* the same name and different UIDs.
C22_Witness ==
    /\ DOMAIN nodeObjs = NodeNames
    /\ creation.foreign = {}
    /\ nodeObjs["n1"].owners[1].name = nodeObjs["n2"].owners[1].name
    /\ nodeObjs["n1"].owners[1].uid # nodeObjs["n2"].owners[1].uid

\* C23: a CreateNode call of the metal3 adaptor whose Get finds the Node
\* writes nothing and returns nil, and no step of any call or of another
\* creator changes the spec or the owner reference of a stored Node: under
\* one name there is the Node of the first creation.
C23_CreateNodeKeepsExistingNode ==
    [][/\ (CallEnters /\ creation'.fn = "CreateNode" /\ creation'.get = "nil")
             => /\ nodeObjs' = nodeObjs
                /\ creation'.pc = "idle"
                /\ creation'.ret = NilError
       /\ \A n \in DOMAIN nodeObjs :
             /\ n \in DOMAIN nodeObjs'
             /\ nodeObjs'[n].spec = nodeObjs[n].spec
             /\ nodeObjs'[n].owners = nodeObjs[n].owners]_vars

\* A third CreateNode call for a stored name, with another NodePool and
\* other arguments than the Node was created with, has returned nil.
C23_Witness ==
    /\ creation.fn = "CreateNode"
    /\ creation.calls = 3
    /\ creation.get = "nil"
    /\ creation.ret = NilError
    /\ creation.nodename \in DOMAIN nodeObjs
    /\ nodeObjs[creation.nodename].spec.hwMgrNodeId # creation.args.nodeId
    /\ nodeObjs[creation.nodename].owners[1].uid # creation.nodepool.uid

\* A resource AllocateNode must reject: a pointer of the ResourceAttribute
\* chain is nil, or the extension NIC data is missing or malformed.
MissingRequired(r) ==
    \/ ~r.hasResourceAttribute
    \/ ~r.hasCompute
    \/ ~r.hasLom
    \/ ~r.hasIpAddress
    \/ ~r.hasPassword
    \/ ~r.hasExtensions
    \/ ~r.hasNics
    \/ ~r.hasNads
    \/ r.nads # "interfaces"

\* The position of an operation in a trace, 0 when it did not run.
RECURSIVE PositionIn(_, _)
PositionIn(trace, op) ==
    IF trace = <<>> THEN 0
    ELSE IF trace[Len(trace)] = op /\ PositionIn(SubSeq(trace, 1, Len(trace) - 1), op) = 0
    THEN Len(trace)
    ELSE PositionIn(SubSeq(trace, 1, Len(trace) - 1), op)

\* C25: AllocateNode of the dell-hwmgr adaptor returns the validation error
\* and no node name for a resource with a missing required attribute or with
\* missing or malformed extension NIC data, without running CreateNode and
\* with the stored Nodes unchanged; when CreateNode runs, ValidateNodeConfig
\* ran before it.
C25_ValidationPrecedesCreation ==
    [][(CallEnters /\ creation'.fn = "AllocateNode")
          => /\ MissingRequired(creation'.resource)
                   => /\ creation'.pc = "idle"
                      /\ creation'.ret # NilError
                      /\ creation'.ret.message = "failed to validate resource configuration"
                      /\ creation'.name = ""
                      /\ PositionIn(creation'.trace, "CreateNode") = 0
                      /\ nodeObjs' = nodeObjs
             /\ PositionIn(creation'.trace, "CreateNode") # 0
                   => /\ PositionIn(creation'.trace, "ValidateNodeConfig") # 0
                      /\ PositionIn(creation'.trace, "ValidateNodeConfig")
                            < PositionIn(creation'.trace, "CreateNode")]_vars

\* C31: AllocateNode of the dell-hwmgr adaptor can be run again.  When a
\* call left the Node stored and returned its name with the error of the
\* status update, the next call for the same resource, once it is over
\* with no request failing, has returned no error and left the Node with
\* its status filled in.
C31_AllocateNodeIsRetrySafe ==
    (/\ creation.fn = "AllocateNode"
     /\ creation.rerun
     /\ creation.pc = "idle"
     /\ ~creation.faulted
     /\ ~creation.panicked)
       => /\ creation.ret = NilError
          /\ nodeObjs[creation.nodename].provisioned

(***************************************************************************)
(* Properties of the errors of node allocation and Node status operations. *)
(***************************************************************************)
\* A Node operation of the metal3 adaptor returns in this step.
NodeOperationReturns == nodeCall.pc # "done" /\ nodeCall'.pc = "done"

\* The step is a status write the API server accepts: the object written
\* carries the stored resourceVersion.
StatusWriteAccepted ==
    \/ nodeCall.pc = "status" /\ nodeCall.new.rv = nodeStore.rv
    \/ nodeCall.pc = "failstatus" /\ nodeMem.rv = nodeStore.rv

\* C26: no failure is dropped.  AllocateNode of the dell-hwmgr adaptor
\* returns nil only when the resource passed validation, the Node was
\* created by this call and its status was written (a call that panics
\* returns nothing); UpdateNodeStatus,
\* ApplyPostConfigUpdates and SetNodeFailedStatus of the metal3 adaptor
\* return nil only from a step whose status write was accepted, so after a
\* failed clearBMHNetworkData, a failed Get, or a write still refused when
\* the retries are used up, they return an error.
C26_NoFailureDropped ==
    [][/\ (CallReturns /\ creation'.fn = "AllocateNode" /\ creation'.ret = NilError)
             => /\ ~MissingRequired(creation'.resource)
                /\ ~creation'.panicked
                /\ creation'.trace = <<"ValidateNodeConfig", "CreateNode", "UpdateNodeStatus">>
                /\ creation'.name = creation'.resource.id
                /\ ~creation'.existed
                /\ creation'.name \notin creation'.foreign
                /\ creation.pc = "statuswrite"
                /\ ~nodeObjs[creation'.name].provisioned
                /\ nodeObjs'[creation'.name].provisioned
       /\ NodeOperationReturns
             => (nodeCall'.err = "nil" <=> StatusWriteAccepted)]_vars

\* AllocateNode has created the Node, failed to write its status, and
\* returned the node name with the error.
C26_Witness ==
    /\ creation.fn = "AllocateNode"
    /\ creation.pc = "idle"
    /\ creation.ret.message = "failed to update node status"
    /\ creation.name = creation.nodename
    /\ creation.name \in DOMAIN nodeObjs
    /\ ~creation.existed
    /\ ~nodeObjs[creation.name].provisioned

(***************************************************************************)
(* Properties of the inventory queries.                                    *)
(***************************************************************************)
\* C27: GetResourcePools and GetResources of every adaptor return 200 with a
\* nil error, and 500 or 503 with a non-nil error and an empty list: 503 when
\* the backend could not be reached and 500 when the failure is internal.
C27_StatusFollowsFailure ==
    inventory.pc = "done"
        => /\ inventory.status \in {StatusOK, StatusInternalServerError,
                                    StatusServiceUnavailable}
           /\ inventory.status = StatusOK <=> inventory.err = NilError
           /\ inventory.err # NilError => inventory.records = <<>>
           /\ inventory.cause = "Unreachable" => inventory.status = StatusServiceUnavailable
           /\ inventory.cause = "Internal" => inventory.status = StatusInternalServerError

\* A host the inventory is to list: both labels set and not empty, and a
\* provisioning state of the allow-list.
Eligible(bmh) ==
    /\ ~bmh.labelsNil
    /\ bmh.poolId # ""
    /\ bmh.siteId # ""
    /\ bmh.state \in {"available", "provisioning", "provisioned", "preparing"}

\* C28: GetResources of the metal3 adaptor, when it succeeds, returns one
\* record for every host that has a non-empty resource-pool label, a
\* non-empty site label and a provisioning state among available,
\* provisioning, provisioned and preparing, and no record for any other host.
C28_InventoryListsEligibleHosts ==
    (inventory.adaptor = "metal3" /\ inventory.fn = "GetResources"
     /\ inventory.pc = "done" /\ inventory.err = NilError)
        => /\ \A i \in DOMAIN hosts :
                 Cardinality({k \in DOMAIN inventory.records :
                                 inventory.records[k].resourceId = i})
                     = IF Eligible(hosts[i]) THEN 1 ELSE 0
           /\ \A k \in DOMAIN inventory.records :
                 /\ inventory.records[k].resourceId \in DOMAIN hosts
                 /\ inventory.records[k].resourcePoolId
                        = hosts[inventory.records[k].resourceId].poolId

\* GetResources has listed the second of two hosts and left out the first,
\* which has both labels and is being deprovisioned.
C28_Witness ==
    /\ inventory.adaptor = "metal3" /\ inventory.fn = "GetResources"
    /\ inventory.pc = "done"
    /\ inventory.err = NilError
    /\ Len(hosts) = 2
    /\ hosts[1].poolId # "" /\ hosts[1].siteId # "" /\ hosts[1].state = StateDeprovisioning
    /\ Len(inventory.records) = 1
    /\ inventory.records[1].resourceId = 2

\* C39: the list GetResourcePools of the metal3 adaptor returns holds each
\* resource-pool id at most once, however many eligible hosts carry the
\* pool's label.
C39_PoolIdsAreUnique ==
    (inventory.adaptor = "metal3" /\ inventory.fn = "GetResourcePools"
     /\ inventory.err = NilError)
        => \A j, k \in DOMAIN inventory.records :
              inventory.records[j].resourcePoolId = inventory.records[k].resourcePoolId
                  => j = k

(***************************************************************************)
(* Properties of the classifier and dispatcher.                            *)
(***************************************************************************)
ProvisionedOf(np) == FindStatusCondition(np.conditions, Provisioned)
HasProvisioned(np) == ProvisionedOf(np) # NilCondition
GenerationDrift(np) == np.generation # np.observedGeneration
\* This step is a HandleNodePool call.
ReconcileStep == reconciles' = reconciles + 1

\* C1: a NodePool whose Provisioned condition has Status=True and whose
\* generation differs from the observed generation is classified SpecChanged
\* by the metal3 and by the loopback classifier, whatever the Reason and
\* whatever other conditions the list holds.
C1_DriftBeforeNoop ==
    (HasProvisioned(nodepool) /\ ProvisionedOf(nodepool).status = ConditionTrue
        /\ GenerationDrift(nodepool))
    => /\ determineActionMetal3(nodepool) = NodePoolFSMSpecChanged
       /\ determineActionLoopback(nodepool) = NodePoolFSMSpecChanged

\* A pass classified a NodePool holding other conditions too as SpecChanged.
C1_Witness ==
    /\ lastAction = NodePoolFSMSpecChanged
    /\ lastHandler = "HandleNodePoolSpecChanged"
    /\ Len(nodepool.conditions) >= 2
    /\ nodepool.conditions[1].type # Provisioned

\* C2: a NodePool with an empty condition list is classified Create by both
\* classifiers, whatever Generation and ObservedGeneration are.
C2_EmptyIsCreate ==
    Len(nodepool.conditions) = 0
    => /\ determineActionMetal3(nodepool) = NodePoolFSMCreate
       /\ determineActionLoopback(nodepool) = NodePoolFSMCreate

\* A pass ran Create on a NodePool whose generation was already above 1.
C2_Witness ==
    /\ lastAction = NodePoolFSMCreate
    /\ lastHandler = "HandleNodePoolCreate"
    /\ nodepool.generation > 1
    /\ Len(nodepool.conditions) = 1

\* C3: a HandleNodePool call on a NodePool with Provisioned Status=True and
\* matching generations classifies it Noop, runs no handler, returns
\* do-not-requeue with a nil error and leaves the NodePool as it was.
C3_NoopIsSteady ==
    [][(HasProvisioned(nodepool) /\ ProvisionedOf(nodepool).status = ConditionTrue
            /\ ~GenerationDrift(nodepool) /\ ReconcileStep)
        => /\ lastAction' = NodePoolFSMNoop
           /\ lastHandler' = "none"
           /\ lastResult' = DoNotRequeue
           /\ nodepool' = nodepool]_vars

\* The NodePool was reconciled twice and is in the steady state.
C3_Witness ==
    /\ reconciles >= 2
    /\ lastAction = NodePoolFSMNoop
    /\ HasProvisioned(nodepool)
    /\ ProvisionedOf(nodepool).status = ConditionTrue
    /\ ~GenerationDrift(nodepool)

\* C4: a HandleNodePool call on a NodePool whose Provisioned condition has
\* Status=False and a Reason other than Failed classifies it Processing and
\* dispatches to HandleNodePoolProcessing, in both adaptors.
C4_FalseNotFailedIsProcessing ==
    [][(HasProvisioned(nodepool) /\ ProvisionedOf(nodepool).status = ConditionFalse
            /\ ProvisionedOf(nodepool).reason # Failed /\ ReconcileStep)
        => /\ lastAction' = NodePoolFSMProcessing
           /\ lastHandler' = "HandleNodePoolProcessing"]_vars

\* The metal3 adaptor ran the Processing handler.
C4_Witness ==
    /\ adaptor = "metal3"
    /\ lastAction = NodePoolFSMProcessing
    /\ lastHandler = "HandleNodePoolProcessing"

\* C5: a HandleNodePool call on a NodePool whose Provisioned condition has
\* Reason=Failed, and whose spec has not changed since it was observed,
\* calls none of the handlers, in every adaptor.
C5_FailedNeverRetried ==
    [][(HasProvisioned(nodepool) /\ ProvisionedOf(nodepool).reason = Failed
            /\ ~GenerationDrift(nodepool) /\ ReconcileStep)
        => lastHandler' = "none"]_vars

\* C6: once the generation of a NodePool in the Failed state (Provisioned
\* Status=False, Reason=Failed) differs from the observed generation, the
\* next HandleNodePool call classifies it as something other than Noop.
C6_FailedReentersOnSpecChange ==
    [][(HasProvisioned(nodepool) /\ ProvisionedOf(nodepool).status = ConditionFalse
            /\ ProvisionedOf(nodepool).reason = Failed
            /\ GenerationDrift(nodepool) /\ ReconcileStep)
        => lastAction' # NodePoolFSMNoop]_vars

\* What a NodePool holds besides the condition list and the two generations:
\* its spec, and the SelectedPools and Properties of its status.
NodePoolRest ==
    [spec : {"spec1", "spec2"}, selectedPools : {"", "pool1"}, properties : {"", "props1"}]

\* The NodePool np with the rest of its fields filled in.
WithRest(np, rest) ==
    [generation |-> np.generation, observedGeneration |-> np.observedGeneration,
     conditions |-> np.conditions, spec |-> rest.spec,
     selectedPools |-> rest.selectedPools, properties |-> rest.properties]

\* C29: the classifier of each adaptor gives every NodePool one of Create,
\* Processing, SpecChanged and Noop, and gives two NodePools with the same
\* condition list, Generation and ObservedGeneration the same action,
\* whatever their spec, SelectedPools and Properties are: each gets the
\* action of the NodePool that holds those three inputs and nothing else.
C29_ClassifierReadsThreeInputs ==
    \A a \in Adaptors :
        /\ determineAction(a, nodepool)
              \in {NodePoolFSMCreate, NodePoolFSMProcessing, NodePoolFSMSpecChanged,
                   NodePoolFSMNoop}
        /\ \A x \in NodePoolRest :
              determineAction(a, WithRest(nodepool, x)) = determineAction(a, nodepool)

\* The loopback adaptor classified a NodePool as SpecChanged on its second pass.
C29_Witness ==
    /\ adaptor = "loopback"
    /\ reconciles = 2
    /\ lastAction = NodePoolFSMSpecChanged

\* C30: a NodePool whose condition list is not empty and holds no Provisioned
\* condition is classified Noop by both adaptors, and a HandleNodePool call
\* on it runs no handler and leaves it as it is, so it stays Noop pass
\* after pass.
C30_NoProvisionedIsNoop ==
    [][(Len(nodepool.conditions) > 0 /\ ~HasProvisioned(nodepool))
          => /\ determineActionMetal3(nodepool) = NodePoolFSMNoop
             /\ determineActionLoopback(nodepool) = NodePoolFSMNoop
             /\ ReconcileStep
                   => /\ lastAction' = NodePoolFSMNoop
                      /\ lastHandler' = "none"
                      /\ nodepool' = nodepool
             /\ Len(nodepool'.conditions) > 0 /\ ~HasProvisioned(nodepool')]_vars

\* Two passes in a row did nothing for a NodePool that holds another
\* writer's condition, no Provisioned condition, and a spec not yet observed.
C30_Witness ==
    /\ reconciles = 2
    /\ lastAction = NodePoolFSMNoop
    /\ lastHandler = "none"
    /\ Len(nodepool.conditions) >= 1
    /\ ~HasProvisioned(nodepool)
    /\ GenerationDrift(nodepool)

====
